---- MODULE Spec2Model ----
(***************************************************************************)
(* Argus: the history ring buffer and the aggregator                       *)
(* (internal/aggregate/aggregator.go), modelled as state machines.         *)
(*                                                                         *)
(*   SpecRB   a RingBuffer driven by Push / Clear / GetAll / GetLast.      *)
(*   SpecAgg  the Aggregator: the aggregation loop, the client calls       *)
(*            (Start, Stop, Subscribe, Unsubscribe, AddSource,             *)
(*            RemoveSource), the ingestors feeding the intake queue and    *)
(*            the consumers of the subscriber queues, interleaved at the   *)
(*            granularity of lock acquisitions.                            *)
(*   FairAgg  SpecAgg with the fairness the Go scheduler gives to          *)
(*            goroutines that are already running.                         *)
(***************************************************************************)
EXTENDS Integers, Sequences, FiniteSets, TLC

VARIABLES
    \* ---- ring buffer under test (SpecRB)
    rb,         \* the RingBuffer: [entries, size, count, writeAt]
    fresh,      \* a buffer constructed at the last Clear, given the same pushes
    pushed,     \* history: every entry pushed since construction
    mark,       \* Len(pushed) at the last Clear
    cleared,    \* a Clear has happened
    op,         \* the last call made on rb
    res,        \* what the last call returned
    \* ---- aggregator (SpecAgg)
    History,    \* a.History, a RingBuffer
    histLog,    \* history: every entry the aggregation loops pushed, in order
    entryChan,  \* a.entryChan, the bounded intake queue
    sent,       \* history: for each entry sent into entryChan, its ingestor
    cancelled,  \* a.ctx is cancelled
    stopped,    \* history: number of Stop() calls that have returned
    sources,    \* a.sources: source name -> ingestor
    sourcesNil, \* a.sources is the nil map
    ing,        \* the ingestors handed to AddSource
    arrays,     \* the backing arrays the a.subscribers slice has had
    subHdr,     \* the a.subscribers slice header: [a: backing array, len]
    sub,        \* the Subscriber objects: [ID, Ch, closed, chClosed, mu]
    delivered,  \* history: the entries broadcast put on each subscriber's Ch
    mu,         \* a.mu: [w: the writer or NoThread, r: the set of readers]
    pc,         \* where each goroutine is
    loc,        \* each goroutine's local variables
    ret,        \* what the last call to return returned
    nops,       \* number of calls the clients may still make
    panicked,   \* the runtime panic that ended the program, or "none"
    \* ---- file ingestor and the file system it watches (SpecFile)
    disk,       \* the file system: [path: inode at the watched path or 0, files]
    fi,         \* the FileIngestor: [file, offset, healthy, cancelled, pc, tries]
                \* and history: reopened, openSize, gaveUp
    events,     \* f.watcher.Events, the notifications not yet received
    offered,    \* history: the lines readNewLines offered to the entries channel
    reads,      \* history: the last readNewLines call that reached the file
    fsops,      \* number of changes the writers may still make
    \* ---- parsers (SpecParse)
    call,       \* the parser call made: [fn, arg, out]
    \* ---- configuration (SpecCfg)
    cfg         \* the Config: Sources, and the last call made on it

rbVars == <<rb, fresh, pushed, mark, cleared, op, res>>

aggVars == <<History, histLog, entryChan, sent, cancelled, stopped, sources,
             sourcesNil, ing, arrays, subHdr, sub, delivered, mu, pc, loc, ret, nops,
             panicked>>

fileVars == <<disk, fi, events, offered, reads, fsops>>

\* everything but the ring buffer under test
restVars == <<aggVars, fileVars, call, cfg>>

\* everything but the aggregator
sideVars == <<rbVars, fileVars, call, cfg>>

(***************************************************************************)
(* Bounds of the model.                                                    *)
(***************************************************************************)
\* largest capacity a RingBuffer is constructed with (0 selects the default)
MaxCap == 3
\* number of Push calls made on one RingBuffer
MaxPush == 7
\* capacity of the aggregator's History
HistCap == 2
\* capacity of entryChan (1000 in NewAggregator)
IntakeCap == 1
\* capacity of a Subscriber's Ch (100 in Subscribe)
SubChanCap == 1
\* number of entries the ingestors send
MaxEvents == 2
\* number of Subscribe calls
MaxSubs == 2
\* number of ingestors handed to AddSource
MaxIng == 2
\* most lines one Write event of a watched file brings
MaxBatch == 2
\* number of calls the clients make on a newly constructed aggregator (SpecAgg)
MaxOps == 3
\* number of changes the writers make to the watched file and its path
MaxFsOps == 4
\* number of characters of the PRIORITY of a journal line
MaxDigits == 2
\* number of words of a line of a watched file
MaxWords == 2
\* number of sources of a Config (SpecCfg)
MaxSources == 3
\* number of calls the clients make on a running aggregator (SpecFan)
MaxFanOps == 2
\* number of calls the clients make while the sources are ingesting (SpecIng)
MaxIngOps == 1
\* number of calls the owner of an ingestor makes on it (SpecSrc)
MaxSrcOps == 3
\* malformed lines in the output of one journalctl process (SpecSrc)
MaxBad == 2

(***************************************************************************)
(* RingBuffer                                                              *)
(***************************************************************************)
\* capacity used when NewRingBuffer is given size <= 0
DefaultSize == 1000

\* the zero value of ingest.LogEntry, which make() fills the array with
ZeroEntry == 0

\* Go's s[lo:hi] of a zero-based array, as a sequence
Slice(s, lo, hi) == [i \in 1..(hi - lo) |-> s[lo + i - 1]]

NewRingBuffer(size) ==
    LET s == IF size <= 0 THEN DefaultSize ELSE size
    IN  [entries |-> [i \in 0..(s - 1) |-> ZeroEntry],
         size    |-> s,
         count   |-> 0,
         writeAt |-> 0]

PushCountUnbounded(b, entry) ==
    [b EXCEPT !.entries[b.writeAt] = entry,
              !.writeAt = (b.writeAt + 1) % b.size,
              !.count   = b.count + 1]

Push(b, entry) ==
    [b EXCEPT !.entries[b.writeAt] = entry,
              !.writeAt = (b.writeAt + 1) % b.size,
              !.count   = IF b.count < b.size THEN b.count + 1 ELSE b.count]

GetAllFromStart(b) ==
    IF b.count = 0 THEN <<>> ELSE Slice(b.entries, 0, b.count)

GetAllAlwaysWrapped(b) ==
    IF b.count = 0 THEN <<>>
    ELSE Slice(b.entries, b.writeAt, b.size) \o Slice(b.entries, 0, b.writeAt)

GetAll(b) ==
    IF b.count = 0 THEN <<>>
    ELSE IF b.count < b.size
         THEN Slice(b.entries, 0, b.count)
         ELSE LET firstPart  == Slice(b.entries, b.writeAt, b.size)
                  secondPart == Slice(b.entries, 0, b.writeAt)
              IN  firstPart \o secondPart

GetLastNoClamp(b, n0) ==
    IF n0 <= 0 \/ b.count = 0 THEN <<>>
    ELSE LET n     == IF n0 > b.size THEN b.size ELSE n0
             start == (b.writeAt - n + b.size) % b.size
         IN  IF start + n <= b.size
             THEN Slice(b.entries, start, start + n)
             ELSE LET firstPart  == Slice(b.entries, start, b.size)
                      secondPart == Slice(b.entries, 0, n - Len(firstPart))
                  IN  firstPart \o secondPart

GetLast(b, n0) ==
    IF n0 <= 0 \/ b.count = 0 THEN <<>>
    ELSE LET n     == IF n0 > b.count THEN b.count ELSE n0
             start == (b.writeAt - n + b.size) % b.size
         IN  IF start + n <= b.size
             THEN Slice(b.entries, start, start + n)
             ELSE LET firstPart  == Slice(b.entries, start, b.size)
                      secondPart == Slice(b.entries, 0, n - Len(firstPart))
                  IN  firstPart \o secondPart

Count(b) == b.count

ClearCountOnly(b) == [b EXCEPT !.count = 0]

Clear(b) == [b EXCEPT !.count = 0, !.writeAt = 0]

(***************************************************************************)
(* SpecRB: one RingBuffer and the calls made on it.  Entries are tagged    *)
(* 1, 2, 3, ... in push order, as the tests tag them with PID.             *)
(***************************************************************************)
FreshRB ==
    /\ \E c \in 0..MaxCap : rb = NewRingBuffer(c) /\ fresh = NewRingBuffer(c)
    /\ pushed = <<>>
    /\ mark = 0
    /\ cleared = FALSE
    /\ op = <<"New", 0>>
    /\ res = <<>>

RBPush ==
    /\ UNCHANGED restVars
    /\ Len(pushed) < MaxPush
    /\ LET entry == Len(pushed) + 1
       IN  /\ rb' = Push(rb, entry)
           /\ fresh' = Push(fresh, entry)
           /\ pushed' = Append(pushed, entry)
    /\ op' = <<"Push", 0>>
    /\ res' = <<>>
    /\ UNCHANGED <<mark, cleared>>

RBClear ==
    /\ UNCHANGED restVars
    /\ rb' = Clear(rb)
    /\ fresh' = NewRingBuffer(rb.size)
    /\ mark' = Len(pushed)
    /\ cleared' = TRUE
    /\ op' = <<"Clear", 0>>
    /\ res' = <<>>
    /\ UNCHANGED pushed

RBGetAll ==
    /\ UNCHANGED restVars
    /\ op' = <<"GetAll", 0>>
    /\ res' = GetAll(rb)
    /\ UNCHANGED <<rb, fresh, pushed, mark, cleared>>

RBGetLast ==
    \E k \in -1..(MaxCap + 1) :
        /\ UNCHANGED restVars
        /\ op' = <<"GetLast", k>>
        /\ res' = GetLast(rb, k)
        /\ UNCHANGED <<rb, fresh, pushed, mark, cleared>>

RBCount ==
    /\ UNCHANGED restVars
    /\ op' = <<"Count", 0>>
    /\ res' = <<Count(rb)>>
    /\ UNCHANGED <<rb, fresh, pushed, mark, cleared>>


(***************************************************************************)
(* Aggregator: goroutines, locks and the subscriber slice                  *)
(***************************************************************************)
\* the goroutines calling the aggregator's methods
Clients == {"c1", "c2"}
\* the aggregation loops, in the order Start() launches them
LoopSeq == <<"l1", "l2">>
Loops == {LoopSeq[i] : i \in DOMAIN LoopSeq}
Threads == Clients \cup Loops
NoThread == "none"

\* source names and subscriber ids; numbers stand for strings in sort order
Names == 1..2
SubIDs == 1..2

NoLoc == [arg |-> 0, obj |-> 0, idx |-> 0, va |-> 0, vlen |-> 0,
          saw |-> FALSE, entry |-> 0]

NoRet == [op |-> "none", arg |-> 0, err |-> FALSE, names |-> <<>>, health |-> {}]

Alive == panicked = "none"

\* sync.RWMutex a.mu
MuFree == mu.w = NoThread /\ mu.r = {}
MuNoWriter == mu.w = NoThread

\* the elements of the slice a.subscribers
Subscribers == SubSeq(arrays[subHdr.a], 1, subHdr.len)

\* append(a.subscribers, o): in place while the backing array has room,
\* otherwise into a new array of twice the capacity
AppendSub(o) ==
    LET arr == arrays[subHdr.a]
        cap == Len(arr)
        n   == subHdr.len
    IN  IF n < cap
        THEN /\ arrays' = [arrays EXCEPT ![subHdr.a][n + 1] = o]
             /\ subHdr' = [subHdr EXCEPT !.len = n + 1]
        ELSE LET newcap == IF cap = 0 THEN 1 ELSE 2 * cap
                 grown  == [j \in 1..newcap |->
                               IF j <= n THEN arr[j] ELSE IF j = n + 1 THEN o ELSE 0]
             IN  /\ arrays' = Append(arrays, grown)
                 /\ subHdr' = [a |-> Len(arrays) + 1, len |-> n + 1]

RemoveSubKeep(i) == UNCHANGED <<arrays, subHdr>>

\* append(a.subscribers[:i], a.subscribers[i+1:]...): shifts the tail left in
\* place; the last slot keeps its old pointer
RemoveSubAt(i) ==
    LET arr == arrays[subHdr.a]
        n   == subHdr.len
    IN  /\ arrays' = [arrays EXCEPT ![subHdr.a] =
                         [j \in 1..Len(arr) |->
                             IF j >= i /\ j < n THEN arr[j + 1] ELSE arr[j]]]
        /\ subHdr' = [subHdr EXCEPT !.len = n - 1]

\* index of the first subscriber with the given ID, 0 when there is none
FindSub(id) ==
    LET hits == {i \in 1..subHdr.len : sub[Subscribers[i]].ID = id}
    IN  IF hits = {} THEN 0 ELSE CHOOSE i \in hits : \A j \in hits : i <= j

\* the orders in which `for name := range a.sources` can visit the keys S
RangeOrders(S) ==
    {s \in [1..Cardinality(S) -> S] : \A i, j \in DOMAIN s : s[i] = s[j] => i = j}

\* x put in its place in the sorted sequence s
Insert(x, s) ==
    LET k == Cardinality({i \in DOMAIN s : s[i] <= x})
    IN  SubSeq(s, 1, k) \o <<x>> \o SubSeq(s, k + 1, Len(s))

\* sort.Strings(names)
RECURSIVE SortStrings(_)
SortStringsNot(names) == names

SortStrings(names) ==
    IF names = <<>> THEN <<>>
    ELSE Insert(Head(names), SortStrings(Tail(names)))

\* the ingestors and the subscribers, numbered as they are constructed
IngIDs == 1..2
SubObjs == 1..MaxSubs

\* the two implementations of Ingestor
Kinds == {"journal", "file"}

\* NewJournalIngestor(config), NewFileIngestor(config)
NewIngestor(name, kind) ==
    [name |-> name, kind |-> kind, st |-> "new", healthy |-> FALSE,
     ctxCancelled |-> FALSE, stops |-> 0, ipc |-> "none", lines |-> <<>>,
     entry |-> 0, proc |-> "none", stopErr |-> FALSE, skipped |-> <<>>]

\* Start(ctx, entries) that succeeded: setHealthy(true) and the read goroutine
Started(g) ==
    [g EXCEPT !.st = "running", !.healthy = TRUE, !.ipc = "wait",
              !.proc = IF g.kind = "journal" THEN "running" ELSE "none"]

\* a Start that returns an error with its goroutine already running
StartFailedLate(g) == [g EXCEPT !.st = "failed", !.ipc = "wait"]

\* Start(ctx, entries) that returned an error
StartFailed(g) == [g EXCEPT !.st = "failed"]

\* the journalctl process is no longer running
ProcessGone(g) == g.proc \in {"killed", "exited", "reaped"}

StopErrNever(g) == FALSE

\* the error Stop() returns: j.cmd.Process.Kill() of a process that cmd.Wait()
\* has already reaped fails with "os: process already finished"
StopErr(g) == g.proc = "reaped"

\* Ingestor.Stop(): cancels the ingestor's context once Start has set it;
\* the journal ingestor also kills its process
IngestorStop(g) ==
    [g EXCEPT !.stops = @ + 1,
              !.ctxCancelled = IF g.st = "new" THEN @ ELSE TRUE,
              !.proc = IF @ = "running" THEN "killed" ELSE @,
              !.stopErr = StopErr(g)]

\* a.sources holding one source, named 1
Register1 == [n \in {1} |-> 1]

NewAggregator ==
    /\ History = NewRingBuffer(HistCap)
    /\ histLog = <<>>
    /\ entryChan = <<>>
    /\ sent = <<>>
    /\ cancelled = FALSE
    /\ stopped = 0
    /\ sources = [n \in {} |-> 0]
    /\ sourcesNil = FALSE
    /\ ing = <<>>
    /\ arrays = << <<>> >>
    /\ subHdr = [a |-> 1, len |-> 0]
    /\ sub = <<>>
    /\ delivered = <<>>
    /\ mu = [w |-> NoThread, r |-> {}]
    /\ pc = [t \in Threads |-> IF t \in Clients THEN "idle" ELSE "unborn"]
    /\ loc = [t \in Threads |-> NoLoc]
    /\ ret = NoRet
    /\ nops = MaxOps
    /\ panicked = "none"

\* a client starts a call; the clients are interchangeable, so the second one
\* is used only for a call that overlaps a call of the first
Call(t) ==
    /\ Alive
    /\ UNCHANGED sideVars
    /\ pc[t] = "idle"
    /\ t = "c2" => pc["c1"] # "idle"
    /\ nops > 0
    /\ nops' = nops - 1

\* a client's call returns
Return(t, r) ==
    /\ pc' = [pc EXCEPT ![t] = "idle"]
    /\ loc' = [loc EXCEPT ![t] = NoLoc]
    /\ ret' = r

(***************************************************************************)
(* Start and the aggregation loop                                          *)
(***************************************************************************)
Start(t) ==
    /\ Call(t)
    /\ \E i \in DOMAIN LoopSeq :
          /\ pc[LoopSeq[i]] = "unborn"
          /\ \A j \in 1..(i - 1) : pc[LoopSeq[j]] # "unborn"
          /\ pc' = [pc EXCEPT ![LoopSeq[i]] = "select"]
    /\ ret' = [NoRet EXCEPT !.op = "Start"]
    /\ UNCHANGED <<History, histLog, entryChan, sent, cancelled, stopped, sources,
                   sourcesNil, ing, arrays, subHdr, sub, delivered, mu, loc, panicked>>

LoopDoneOnEmpty(l) ==
    /\ Alive
    /\ UNCHANGED sideVars
    /\ pc[l] = "select"
    /\ cancelled \/ entryChan = <<>>
    /\ pc' = [pc EXCEPT ![l] = "done"]
    /\ UNCHANGED <<History, histLog, entryChan, sent, cancelled, stopped, sources,
                   sourcesNil, ing, arrays, subHdr, sub, delivered, mu, loc, ret, nops,
                   panicked>>

\* select: case <-a.ctx.Done(): return
LoopDone(l) ==
    /\ Alive
    /\ UNCHANGED sideVars
    /\ pc[l] = "select"
    /\ cancelled
    /\ pc' = [pc EXCEPT ![l] = "done"]
    /\ UNCHANGED <<History, histLog, entryChan, sent, cancelled, stopped, sources,
                   sourcesNil, ing, arrays, subHdr, sub, delivered, mu, loc, ret, nops,
                   panicked>>

\* select: case entry := <-a.entryChan
LoopRecv(l) ==
    /\ Alive
    /\ UNCHANGED sideVars
    /\ pc[l] = "select"
    /\ entryChan # <<>>
    /\ loc' = [loc EXCEPT ![l].entry = Head(entryChan)]
    /\ entryChan' = Tail(entryChan)
    /\ pc' = [pc EXCEPT ![l] = "push"]
    /\ UNCHANGED <<History, histLog, sent, cancelled, stopped, sources, sourcesNil,
                   ing, arrays, subHdr, sub, delivered, mu, ret, nops, panicked>>

LoopBroadcastOnly(l) ==
    /\ Alive
    /\ UNCHANGED sideVars
    /\ pc[l] = "push"
    /\ UNCHANGED <<History, histLog>>
    /\ pc' = [pc EXCEPT ![l] = "bcast"]
    /\ UNCHANGED <<entryChan, sent, cancelled, stopped, sources, sourcesNil, ing,
                   arrays, subHdr, sub, delivered, mu, loc, ret, nops, panicked>>

\* a.History.Push(entry)
LoopPush(l) ==
    /\ Alive
    /\ UNCHANGED sideVars
    /\ pc[l] = "push"
    /\ History' = Push(History, loc[l].entry)
    /\ histLog' = Append(histLog, loc[l].entry)
    /\ pc' = [pc EXCEPT ![l] = "bcast"]
    /\ UNCHANGED <<entryChan, sent, cancelled, stopped, sources, sourcesNil, ing,
                   arrays, subHdr, sub, delivered, mu, loc, ret, nops, panicked>>

\* broadcast: a.mu.RLock()
BroadcastRLock(l) ==
    /\ Alive
    /\ UNCHANGED sideVars
    /\ pc[l] = "bcast"
    /\ MuNoWriter
    /\ mu' = [mu EXCEPT !.r = @ \cup {l}]
    /\ loc' = [loc EXCEPT ![l].idx = 1]
    /\ pc' = [pc EXCEPT ![l] = "bcast_iter"]
    /\ UNCHANGED <<History, histLog, entryChan, sent, cancelled, stopped, sources,
                   sourcesNil, ing, arrays, subHdr, sub, delivered, ret, nops, panicked>>

\* a broadcast that returns without a.mu.RUnlock()
BroadcastKeepsRLock(l) ==
    /\ Alive
    /\ UNCHANGED sideVars
    /\ pc[l] = "bcast_iter"
    /\ loc[l].idx > subHdr.len
    /\ loc' = [loc EXCEPT ![l] = NoLoc]
    /\ pc' = [pc EXCEPT ![l] = "select"]
    /\ UNCHANGED <<History, histLog, entryChan, sent, cancelled, stopped, sources,
                   sourcesNil, ing, arrays, subHdr, sub, delivered, ret, nops,
                   panicked, mu>>

\* broadcast: the range is exhausted, the deferred a.mu.RUnlock() runs
BroadcastRUnlock(l) ==
    /\ Alive
    /\ UNCHANGED sideVars
    /\ pc[l] = "bcast_iter"
    /\ loc[l].idx > subHdr.len
    /\ mu' = [mu EXCEPT !.r = @ \ {l}]
    /\ loc' = [loc EXCEPT ![l] = NoLoc]
    /\ pc' = [pc EXCEPT ![l] = "select"]
    /\ UNCHANGED <<History, histLog, entryChan, sent, cancelled, stopped, sources,
                   sourcesNil, ing, arrays, subHdr, sub, delivered, ret, nops, panicked>>

BroadcastSubNoLock(s, l) == s

\* sub.mu.Lock() as broadcast takes it
BroadcastSubLock(s, l) == [s EXCEPT !.mu = l]

\* broadcast: sub.mu.Lock(); if !sub.closed
BroadcastLockSub(l) ==
    /\ Alive
    /\ UNCHANGED sideVars
    /\ pc[l] = "bcast_iter"
    /\ loc[l].idx <= subHdr.len
    /\ LET o == Subscribers[loc[l].idx]
       IN  /\ sub[o].mu = NoThread
           /\ sub' = [sub EXCEPT ![o] = BroadcastSubLock(sub[o], l)]
           /\ loc' = [loc EXCEPT ![l].obj = o, ![l].saw = sub[o].closed]
    /\ pc' = [pc EXCEPT ![l] = "bcast_send"]
    /\ UNCHANGED <<History, histLog, entryChan, sent, cancelled, stopped, sources,
                   sourcesNil, ing, arrays, subHdr, delivered, mu, ret, nops, panicked>>

TrySendUnbounded(ch, entry) == Append(ch, entry)

\* select { case sub.Ch <- entry: default: }: the subscriber's queue after it
TrySend(ch, entry) == IF Len(ch) < SubChanCap THEN Append(ch, entry) ELSE ch

CanSendWhenRoom(ch) == Len(ch) < SubChanCap

\* the select has a default case: it never waits for room in the queue
CanSend(ch) == TRUE

\* broadcast: the non-blocking send (skipped when closed was seen), then
\* sub.mu.Unlock()
BroadcastSend(l) ==
    /\ Alive
    /\ UNCHANGED sideVars
    /\ pc[l] = "bcast_send"
    /\ loc[l].saw \/ CanSend(sub[loc[l].obj].Ch)
    /\ LET o == loc[l].obj
       IN  IF loc[l].saw
           THEN /\ sub' = [sub EXCEPT ![o].mu = IF @ = l THEN NoThread ELSE @]
                /\ UNCHANGED <<delivered, panicked>>
           ELSE IF sub[o].chClosed
                THEN /\ panicked' = "send on closed channel"
                     /\ UNCHANGED <<sub, delivered>>
                ELSE /\ sub' = [sub EXCEPT ![o].Ch = TrySend(@, loc[l].entry),
                                           ![o].mu = IF @ = l THEN NoThread ELSE @]
                     /\ delivered' = [delivered EXCEPT ![o] =
                                         IF TrySend(sub[o].Ch, loc[l].entry) # sub[o].Ch
                                         THEN Append(@, loc[l].entry) ELSE @]
                     /\ UNCHANGED panicked
    /\ loc' = [loc EXCEPT ![l].idx = @ + 1, ![l].obj = 0, ![l].saw = FALSE]
    /\ pc' = [pc EXCEPT ![l] = "bcast_iter"]
    /\ UNCHANGED <<History, histLog, entryChan, sent, cancelled, stopped, sources,
                   sourcesNil, ing, arrays, subHdr, mu, ret, nops>>

(***************************************************************************)
(* Subscribe, Unsubscribe                                                  *)
(***************************************************************************)
\* Subscribe(id): a new Subscriber, appended to a.subscribers under a.mu
Subscribe(t, id) ==
    /\ Call(t)
    /\ Len(sub) < MaxSubs
    /\ MuFree
    /\ LET o == Len(sub) + 1
       IN  /\ sub' = Append(sub, [ID |-> id, Ch |-> <<>>, closed |-> FALSE,
                                  chClosed |-> FALSE, mu |-> NoThread])
           /\ delivered' = Append(delivered, <<>>)
           /\ AppendSub(o)
           /\ ret' = [NoRet EXCEPT !.op = "Subscribe", !.arg = id]
    /\ UNCHANGED <<History, histLog, entryChan, sent, cancelled, stopped, sources,
                   sourcesNil, ing, mu, pc, loc, panicked>>

\* Unsubscribe(id): a.mu.Lock(), then the search for the first match
UnsubscribeFind(t, id) ==
    /\ Call(t)
    /\ MuFree
    /\ LET i == FindSub(id)
       IN  IF i = 0
           THEN /\ ret' = [NoRet EXCEPT !.op = "Unsubscribe", !.arg = id]
                /\ UNCHANGED <<mu, pc, loc>>
           ELSE /\ mu' = [mu EXCEPT !.w = t]
                /\ pc' = [pc EXCEPT ![t] = "unsub_close"]
                /\ loc' = [loc EXCEPT ![t].arg = id, ![t].idx = i,
                                      ![t].obj = Subscribers[i]]
                /\ UNCHANGED ret
    /\ UNCHANGED <<History, histLog, entryChan, sent, cancelled, stopped, sources,
                   sourcesNil, ing, arrays, subHdr, sub, delivered, panicked>>

\* Unsubscribe: sub.mu.Lock(); closed = true; close(sub.Ch); sub.mu.Unlock();
\* the removal from the slice; the deferred a.mu.Unlock()
UnsubscribeClose(t) ==
    /\ Alive
    /\ UNCHANGED sideVars
    /\ pc[t] = "unsub_close"
    /\ LET o == loc[t].obj
       IN  /\ sub[o].mu = NoThread
           /\ IF sub[o].chClosed
              THEN /\ panicked' = "close of closed channel"
                   /\ UNCHANGED <<sub, arrays, subHdr>>
              ELSE /\ sub' = [sub EXCEPT ![o].closed = TRUE, ![o].chClosed = TRUE]
                   /\ RemoveSubAt(loc[t].idx)
                   /\ UNCHANGED panicked
    /\ mu' = [mu EXCEPT !.w = NoThread]
    /\ Return(t, [NoRet EXCEPT !.op = "Unsubscribe", !.arg = loc[t].arg])
    /\ UNCHANGED <<History, histLog, entryChan, sent, cancelled, stopped, sources,
                   sourcesNil, ing, delivered, nops>>

(***************************************************************************)
(* AddSource, RemoveSource, GetSources, GetSourceHealth                    *)
(***************************************************************************)
\* AddSource: a.sources[source.Name()] = source, under a.mu
Register(name, i) ==
    [n \in DOMAIN sources \cup {name} |-> IF n = name THEN i ELSE sources[n]]

\* AddSource(source): the map edit; the source is a newly constructed ingestor
AddSourceRegister(t, name) ==
    /\ Call(t)
    /\ Len(ing) < MaxIng
    /\ MuFree
    /\ LET i == Len(ing) + 1
       IN  /\ \E kind \in Kinds : ing' = Append(ing, NewIngestor(name, kind))
           /\ IF sourcesNil
              THEN /\ panicked' = "assignment to entry in nil map"
                   /\ UNCHANGED sources
              ELSE /\ sources' = Register(name, i)
                   /\ UNCHANGED panicked
           /\ loc' = [loc EXCEPT ![t].arg = name, ![t].obj = i]
    /\ pc' = [pc EXCEPT ![t] = "add_start"]
    /\ UNCHANGED <<History, histLog, entryChan, sent, cancelled, stopped,
                   sourcesNil, arrays, subHdr, sub, delivered, mu, ret>>

\* AddSource: return source.Start(a.ctx, a.entryChan); Start fails when the
\* process or file cannot be opened
AddSourceStart(t) ==
    /\ Alive
    /\ UNCHANGED sideVars
    /\ pc[t] = "add_start"
    /\ \E ok \in BOOLEAN :
          /\ ing' = [ing EXCEPT ![loc[t].obj] =
                                    IF ok THEN Started(@) ELSE StartFailed(@)]
          /\ Return(t, [NoRet EXCEPT !.op = "AddSource", !.arg = loc[t].arg,
                                     !.err = ~ok])
    /\ UNCHANGED <<History, histLog, entryChan, sent, cancelled, stopped, sources,
                   sourcesNil, arrays, subHdr, sub, delivered, mu, nops, panicked>>

RemoveSourceFindClears(t, name) ==
    /\ Call(t)
    /\ MuFree
    /\ IF name \notin DOMAIN sources
       THEN /\ ret' = [NoRet EXCEPT !.op = "RemoveSource", !.arg = name]
            /\ sources' = [n \in {} |-> 0]
            /\ UNCHANGED <<mu, pc, loc>>
       ELSE /\ sources' = [n \in DOMAIN sources \ {name} |-> sources[n]]
            /\ mu' = [mu EXCEPT !.w = t]
            /\ pc' = [pc EXCEPT ![t] = "rm_stop"]
            /\ loc' = [loc EXCEPT ![t].arg = name, ![t].obj = sources[name]]
            /\ UNCHANGED ret
    /\ UNCHANGED <<History, histLog, entryChan, sent, cancelled, stopped,
                   sourcesNil, ing, arrays, subHdr, sub, delivered, panicked>>

\* RemoveSource(name): a.mu.Lock(), the lookup and the delete
RemoveSourceFind(t, name) ==
    /\ Call(t)
    /\ MuFree
    /\ IF name \notin DOMAIN sources
       THEN /\ ret' = [NoRet EXCEPT !.op = "RemoveSource", !.arg = name]
            /\ UNCHANGED <<sources, mu, pc, loc>>
       ELSE /\ sources' = [n \in DOMAIN sources \ {name} |-> sources[n]]
            /\ mu' = [mu EXCEPT !.w = t]
            /\ pc' = [pc EXCEPT ![t] = "rm_stop"]
            /\ loc' = [loc EXCEPT ![t].arg = name, ![t].obj = sources[name]]
            /\ UNCHANGED ret
    /\ UNCHANGED <<History, histLog, entryChan, sent, cancelled, stopped,
                   sourcesNil, ing, arrays, subHdr, sub, delivered, panicked>>

\* RemoveSource: return source.Stop(), then the deferred a.mu.Unlock()
RemoveSourceStop(t) ==
    /\ Alive
    /\ UNCHANGED sideVars
    /\ pc[t] = "rm_stop"
    /\ ing' = [ing EXCEPT ![loc[t].obj] = IngestorStop(@)]
    /\ mu' = [mu EXCEPT !.w = NoThread]
    /\ Return(t, [NoRet EXCEPT !.op = "RemoveSource", !.arg = loc[t].arg,
                               !.err = StopErr(ing[loc[t].obj])])
    /\ UNCHANGED <<History, histLog, entryChan, sent, cancelled, stopped, sources,
                   sourcesNil, arrays, subHdr, sub, delivered, nops, panicked>>

\* the map GetSourceHealth() returns, as a set of <<name, healthy>>
SourceHealth == {<<n, ing[sources[n]].healthy>> : n \in DOMAIN sources}

GetSources(t) ==
    /\ Call(t)
    /\ MuNoWriter
    /\ \E names \in RangeOrders(DOMAIN sources) :
           ret' = [NoRet EXCEPT !.op = "GetSources", !.names = SortStrings(names)]
    /\ UNCHANGED <<History, histLog, entryChan, sent, cancelled, stopped, sources,
                   sourcesNil, ing, arrays, subHdr, sub, delivered, mu, pc, loc,
                   panicked>>

GetSourceHealth(t) ==
    /\ Call(t)
    /\ MuNoWriter
    /\ ret' = [NoRet EXCEPT !.op = "GetSourceHealth", !.health = SourceHealth]
    /\ UNCHANGED <<History, histLog, entryChan, sent, cancelled, stopped, sources,
                   sourcesNil, ing, arrays, subHdr, sub, delivered, mu, pc, loc,
                   panicked>>

(***************************************************************************)
(* Stop                                                                    *)
(***************************************************************************)
\* Stop: a.cancel()
StopCancel(t) ==
    /\ Call(t)
    /\ cancelled' = TRUE
    /\ pc' = [pc EXCEPT ![t] = "stop_lock"]
    /\ UNCHANGED <<History, histLog, entryChan, sent, stopped, sources, sourcesNil,
                   ing, arrays, subHdr, sub, delivered, mu, loc, ret, panicked>>

\* Stop: a.mu.Lock()
StopLock(t) ==
    /\ Alive
    /\ UNCHANGED sideVars
    /\ pc[t] = "stop_lock"
    /\ MuFree
    /\ mu' = [mu EXCEPT !.w = t]
    /\ pc' = [pc EXCEPT ![t] = "stop_sources"]
    /\ UNCHANGED <<History, histLog, entryChan, sent, cancelled, stopped, sources,
                   sourcesNil, ing, arrays, subHdr, sub, delivered, loc, ret, nops,
                   panicked>>

\* Stop: source.Stop() for every registered source; a.sources = nil;
\* a.mu.Unlock()
StopSources(t) ==
    /\ Alive
    /\ UNCHANGED sideVars
    /\ pc[t] = "stop_sources"
    /\ ing' = [i \in DOMAIN ing |->
                  IF \E n \in DOMAIN sources : sources[n] = i
                  THEN IngestorStop(ing[i]) ELSE ing[i]]
    /\ sources' = [n \in {} |-> 0]
    /\ sourcesNil' = TRUE
    /\ mu' = [mu EXCEPT !.w = NoThread]
    /\ loc' = [loc EXCEPT ![t].va = -1, ![t].vlen = -1]
    /\ pc' = [pc EXCEPT ![t] = "stop_range"]
    /\ UNCHANGED <<History, histLog, entryChan, sent, cancelled, stopped, arrays,
                   subHdr, sub, delivered, ret, nops, panicked>>

\* Stop: range a.subscribers reads the slice header without a.mu, one word at
\* a time; Subscribe and Unsubscribe may write it in between
StopRange(t) ==
    /\ Alive
    /\ UNCHANGED sideVars
    /\ pc[t] = "stop_range"
    /\ \/ /\ loc[t].va = -1
          /\ loc' = [loc EXCEPT ![t].va = subHdr.a, ![t].idx = 1]
       \/ /\ loc[t].vlen = -1
          /\ loc' = [loc EXCEPT ![t].vlen = subHdr.len, ![t].idx = 1]
    /\ pc' = [pc EXCEPT ![t] =
                 IF loc'[t].va # -1 /\ loc'[t].vlen # -1 THEN "stop_iter" ELSE @]
    /\ UNCHANGED <<History, histLog, entryChan, sent, cancelled, stopped, sources,
                   sourcesNil, ing, arrays, subHdr, sub, delivered, mu, ret, nops,
                   panicked>>

\* Stop: the subscriber's state after sub.mu.Lock(); if !sub.closed
\* { sub.closed = true; close(sub.Ch) }; sub.mu.Unlock()
StopCloseSub(s) ==
    IF s.closed THEN s ELSE [s EXCEPT !.closed = TRUE, !.chClosed = TRUE]

\* Stop: one iteration of the range over the subscribers; the element is read
\* from the backing array the header word named
StopIter(t) ==
    /\ Alive
    /\ UNCHANGED sideVars
    /\ pc[t] = "stop_iter"
    /\ loc[t].idx <= loc[t].vlen
    /\ IF loc[t].idx > Len(arrays[loc[t].va])
       THEN /\ panicked' = "read past the backing array"
            /\ UNCHANGED sub
       ELSE LET o == arrays[loc[t].va][loc[t].idx]
            IN  IF o = 0
                THEN /\ panicked' = "nil pointer dereference"
                     /\ UNCHANGED sub
                ELSE /\ sub[o].mu = NoThread
                     /\ IF ~sub[o].closed /\ sub[o].chClosed
                        THEN /\ panicked' = "close of closed channel"
                             /\ UNCHANGED sub
                        ELSE /\ sub' = [sub EXCEPT ![o] = StopCloseSub(@)]
                             /\ UNCHANGED panicked
    /\ loc' = [loc EXCEPT ![t].idx = @ + 1]
    /\ UNCHANGED <<History, histLog, entryChan, sent, cancelled, stopped, sources,
                   sourcesNil, ing, arrays, subHdr, delivered, mu, pc, ret, nops>>

\* Stop returns
StopReturn(t) ==
    /\ Alive
    /\ UNCHANGED sideVars
    /\ pc[t] = "stop_iter"
    /\ loc[t].idx > loc[t].vlen
    /\ stopped' = stopped + 1
    /\ Return(t, [NoRet EXCEPT !.op = "Stop"])
    /\ UNCHANGED <<History, histLog, entryChan, sent, cancelled, sources,
                   sourcesNil, ing, arrays, subHdr, sub, delivered, mu, nops, panicked>>

(***************************************************************************)
(* The environment: ingestors sending, consumers receiving                 *)
(***************************************************************************)
\* ctx.Done() of an ingestor's context: a child of the aggregator's a.ctx
Cancelled(g) == g.ctxCancelled \/ cancelled

\* the read goroutine of an ingestor returns
Exited(g) == [g EXCEPT !.st = "exited", !.healthy = FALSE, !.ipc = "none",
                       !.lines = <<>>, !.entry = 0]

\* the aggregator's fields an ingestor goroutine never touches
aggRest == <<History, histLog, cancelled, stopped, sources, sourcesNil, arrays,
             subHdr, sub, delivered, mu, pc, loc, ret, nops, panicked>>

\* journal: scanner.Scan() returns true, journalctl has written another line
JournalScan(i) ==
    /\ Alive
    /\ UNCHANGED sideVars
    /\ i \in DOMAIN ing
    /\ ing[i].kind = "journal"
    /\ ing[i].ipc = "wait"
    /\ Len(sent) < MaxEvents
    /\ ing' = [ing EXCEPT ![i].ipc = "check", ![i].entry = Len(sent) + 1]
    /\ sent' = Append(sent, i)
    /\ UNCHANGED <<entryChan, aggRest>>

\* journal: the journalctl process exits, by itself or killed by
\* exec.CommandContext when the context is cancelled
JournalProcExit(i) ==
    /\ Alive
    /\ UNCHANGED sideVars
    /\ i \in DOMAIN ing
    /\ ing[i].proc = "running"
    /\ ing' = [ing EXCEPT ![i].proc = "exited"]
    /\ UNCHANGED <<entryChan, sent, aggRest>>

JournalWaitOnly(i) ==
    /\ Alive
    /\ UNCHANGED sideVars
    /\ i \in DOMAIN ing
    /\ ing[i].proc \in {"killed", "exited"}
    /\ ing' = [ing EXCEPT ![i].proc = "reaped"]
    /\ UNCHANGED <<entryChan, sent, aggRest>>

\* journal: the second goroutine of Start: j.cmd.Wait(); j.setHealthy(false)
JournalWait(i) ==
    /\ Alive
    /\ UNCHANGED sideVars
    /\ i \in DOMAIN ing
    /\ ing[i].proc \in {"killed", "exited"}
    /\ ing' = [ing EXCEPT ![i].proc = "reaped", ![i].healthy = FALSE]
    /\ UNCHANGED <<entryChan, sent, aggRest>>

\* journal: scanner.Scan() returns false, journalctl has exited or was killed
JournalEOF(i) ==
    /\ Alive
    /\ UNCHANGED sideVars
    /\ i \in DOMAIN ing
    /\ ing[i].kind = "journal"
    /\ ing[i].ipc = "wait"
    /\ ProcessGone(ing[i])
    /\ ing' = [ing EXCEPT ![i] = Exited(@)]
    /\ UNCHANGED <<entryChan, sent, aggRest>>

\* the line of journalctl's output that json.Unmarshal rejects
MalformedLine == -1

\* journal: scanner.Scan() returns true with a line that is not JSON; the
\* ingestor's `skipped` remembers how many events were read before it
JournalScanBad(i) ==
    /\ Alive
    /\ UNCHANGED sideVars
    /\ i \in DOMAIN ing
    /\ ing[i].kind = "journal"
    /\ ing[i].ipc = "wait"
    /\ Len(ing[i].skipped) < MaxBad
    /\ ing' = [ing EXCEPT ![i].ipc = "check", ![i].entry = MalformedLine,
                          ![i].skipped = Append(@, Len(sent))]
    /\ UNCHANGED <<entryChan, sent, aggRest>>

\* a read goroutine that returns on a line it cannot parse
JournalCheckAbort(i) ==
    /\ Alive
    /\ UNCHANGED sideVars
    /\ i \in DOMAIN ing
    /\ ing[i].ipc = "check"
    /\ ing' = [ing EXCEPT ![i] = IF Cancelled(@) \/ @.entry = MalformedLine
                                 THEN Exited(@)
                                 ELSE [@ EXCEPT !.ipc = "send"]]
    /\ UNCHANGED <<entryChan, sent, aggRest>>

\* journal: select { case <-ctx.Done(): return; default: } after each line,
\* then parseJournalEntry: on an error the loop continues with the next line
JournalCheck(i) ==
    /\ Alive
    /\ UNCHANGED sideVars
    /\ i \in DOMAIN ing
    /\ ing[i].ipc = "check"
    /\ ing' = [ing EXCEPT ![i] = IF Cancelled(@) THEN Exited(@)
                                 ELSE IF @.entry = MalformedLine
                                      THEN [@ EXCEPT !.ipc = "wait", !.entry = 0]
                                      ELSE [@ EXCEPT !.ipc = "send"]]
    /\ UNCHANGED <<entryChan, sent, aggRest>>

\* journal: select { case entries <- entry: ... }, the send case
JournalSend(i) ==
    /\ Alive
    /\ UNCHANGED sideVars
    /\ i \in DOMAIN ing
    /\ ing[i].ipc = "send"
    /\ Len(entryChan) < IntakeCap
    /\ entryChan' = Append(entryChan, ing[i].entry)
    /\ ing' = [ing EXCEPT ![i].ipc = "wait", ![i].entry = 0]
    /\ UNCHANGED <<sent, aggRest>>

JournalSendOnly(i) == JournalSend(i)

\* journal: select { ... case <-ctx.Done(): return }, the cancellation case
JournalSendCancel(i) ==
    /\ Alive
    /\ UNCHANGED sideVars
    /\ i \in DOMAIN ing
    /\ ing[i].ipc = "send"
    /\ Cancelled(ing[i])
    /\ ing' = [ing EXCEPT ![i] = Exited(@)]
    /\ UNCHANGED <<entryChan, sent, aggRest>>

\* file: watchLoop takes a Write event; k lines were appended to the file,
\* numbered in the order they stand in it
FileEvent(i) ==
    /\ Alive
    /\ UNCHANGED sideVars
    /\ i \in DOMAIN ing
    /\ ing[i].kind = "file"
    /\ ing[i].ipc = "wait"
    /\ \E k \in 1..MaxBatch :
          /\ Len(sent) + k <= MaxEvents
          /\ ing' = [ing EXCEPT ![i].ipc = "batch",
                                ![i].lines = [j \in 1..k |-> Len(sent) + j]]
          /\ sent' = sent \o [j \in 1..k |-> i]
    /\ UNCHANGED <<entryChan, aggRest>>

ReadStringFromEnd(lines) == <<lines[Len(lines)], SubSeq(lines, 1, Len(lines) - 1)>>

\* reader.ReadString('\n'): the next unread line and the lines after it
ReadString(lines) == <<Head(lines), Tail(lines)>>

\* file: readNewLines parses the next line and offers it to the intake queue
\* with select { case entries <- entry: default: }
FileLine(i) ==
    /\ Alive
    /\ UNCHANGED sideVars
    /\ i \in DOMAIN ing
    /\ ing[i].ipc = "batch"
    /\ LET rd == ReadString(ing[i].lines)
       IN  /\ entryChan' = IF Len(entryChan) < IntakeCap
                           THEN Append(entryChan, rd[1])
                           ELSE entryChan
           /\ ing' = [ing EXCEPT ![i].lines = rd[2],
                                 ![i].ipc = IF rd[2] = <<>> THEN "wait" ELSE "batch"]
    /\ UNCHANGED <<sent, aggRest>>

\* file: watchLoop takes case <-ctx.Done() and returns
FileDone(i) ==
    /\ Alive
    /\ UNCHANGED sideVars
    /\ i \in DOMAIN ing
    /\ ing[i].kind = "file"
    /\ ing[i].ipc = "wait"
    /\ Cancelled(ing[i])
    /\ ing' = [ing EXCEPT ![i] = Exited(@)]
    /\ UNCHANGED <<entryChan, sent, aggRest>>

\* a step of the read goroutine of ingestor i
IngestorStep(i) ==
    \/ JournalProcExit(i)
    \/ JournalWait(i)
    \/ JournalScan(i)
    \/ JournalEOF(i)
    \/ JournalCheck(i)
    \/ JournalSend(i)
    \/ JournalSendCancel(i)
    \/ FileEvent(i)
    \/ FileLine(i)
    \/ FileDone(i)

\* the consumer of a subscriber receives from sub.Ch
Consume(o) ==
    /\ Alive
    /\ UNCHANGED sideVars
    /\ o \in DOMAIN sub
    /\ sub[o].Ch # <<>>
    /\ sub' = [sub EXCEPT ![o].Ch = Tail(@)]
    /\ UNCHANGED <<History, histLog, entryChan, sent, cancelled, stopped, sources,
                   sourcesNil, ing, arrays, subHdr, delivered, mu, pc, loc, ret,
                   nops, panicked>>

ClientStep ==
    \E t \in Clients :
        \/ Start(t)
        \/ \E id \in SubIDs : Subscribe(t, id)
        \/ \E id \in SubIDs : UnsubscribeFind(t, id)
        \/ UnsubscribeClose(t)
        \/ \E name \in Names : AddSourceRegister(t, name)
        \/ AddSourceStart(t)
        \/ \E name \in Names : RemoveSourceFind(t, name)
        \/ RemoveSourceStop(t)
        \/ GetSources(t)
        \/ GetSourceHealth(t)
        \/ StopCancel(t)
        \/ StopLock(t)
        \/ StopSources(t)
        \/ StopRange(t)
        \/ StopIter(t)
        \/ StopReturn(t)

LoopStep ==
    \E l \in Loops :
        \/ LoopDone(l)
        \/ LoopRecv(l)
        \/ LoopPush(l)
        \/ BroadcastRLock(l)
        \/ BroadcastLockSub(l)
        \/ BroadcastSend(l)
        \/ BroadcastRUnlock(l)

EnvStep ==
    \/ \E i \in IngIDs : IngestorStep(i)
    \/ \E o \in SubObjs : Consume(o)

NextAgg == ClientStep \/ LoopStep \/ EnvStep

vars == <<rbVars, aggVars, fileVars, call, cfg>>

\* the newline byte
NL == 0

\* a nil *os.File (os.Open failed), and one that has been closed
NilFile == 0

ClosedFile == -1

\* the inode behind the name f.config.Path, or NoFile when nothing has that name
NoFile == 0

\* no readNewLines call has reached the file
NoRead == [ino |-> NoFile, content |-> <<>>, offset |-> 0, lines |-> <<>>]

\* the file ingestor and the file system left alone by the other steps
IdleFile ==
    /\ disk = [path |-> NoFile, files |-> <<>>, next |-> 1]
    /\ fi = [file |-> NilFile, offset |-> 0, healthy |-> FALSE,
             cancelled |-> FALSE, pc |-> "new", tries |-> 0,
             reopened |-> FALSE, openSize |-> 0, gaveUp |-> FALSE]
    /\ events = <<>>
    /\ offered = <<>>
    /\ reads = NoRead
    /\ fsops = 0

(***************************************************************************)
(* The configuration (SpecCfg).  A SourceConfig is its Name and its Path,  *)
(* the Path standing for every field that is not the Name.                 *)
(***************************************************************************)
\* DefaultConfig().Sources
DefaultSources == <<[Name |-> "System Journal", Path |-> ""]>>

\* the Config as DefaultConfig() returns it, no call made on it
IdleCfg ==
    cfg = [Sources |-> DefaultSources, prev |-> DefaultSources, op |-> "none",
           arg |-> "", removed |-> FALSE]

\* c.AddSource(source)
CfgAddSource(source) ==
    /\ Len(cfg.Sources) < MaxSources
    /\ cfg' = [Sources |-> Append(cfg.Sources, source), prev |-> cfg.Sources,
               op |-> "AddSource", arg |-> source.Name, removed |-> FALSE]
    /\ UNCHANGED <<rbVars, aggVars, fileVars, call>>

\* the range loop of RemoveSource from index i: the first index whose source
\* has the name, or 0 when the loop ends without one
RECURSIVE FindSource(_, _, _)
FindSource(srcs, name, i) ==
    IF i > Len(srcs) THEN 0
    ELSE IF srcs[i].Name = name THEN i
    ELSE FindSource(srcs, name, i + 1)

\* a delete that drops the sources after index i as well
DeleteFrom(srcs, i) == SubSeq(srcs, 1, i - 1)

\* append(c.Sources[:i], c.Sources[i+1:]...), i counted from 1
Delete(srcs, i) == SubSeq(srcs, 1, i - 1) \o SubSeq(srcs, i + 1, Len(srcs))

\* c.RemoveSource(name)
CfgRemoveSource(name) ==
    /\ LET i == FindSource(cfg.Sources, name, 1)
       IN  cfg' = [Sources |-> IF i = 0 THEN cfg.Sources ELSE Delete(cfg.Sources, i),
                   prev |-> cfg.Sources, op |-> "RemoveSource", arg |-> name,
                   removed |-> i # 0]
    /\ UNCHANGED <<rbVars, aggVars, fileVars, call>>

\* no parser has been called
IdleParse == call = [fn |-> "none", arg |-> <<>>, out |-> <<>>]

\* the ring buffer of SpecRB, left alone by the aggregator's steps
IdleRB ==
    /\ rb = NewRingBuffer(1)
    /\ fresh = NewRingBuffer(1)
    /\ pushed = <<>>
    /\ mark = 0
    /\ cleared = FALSE
    /\ op = <<"New", 0>>
    /\ res = <<>>

\* the aggregator after NewAggregator(n); Start(); AddSource(src) with a source
\* named 1 whose Start succeeded: the state the steps Start, AddSourceRegister
\* and AddSourceStart lead to from NewAggregator
Running ==
    /\ History = NewRingBuffer(HistCap)
    /\ histLog = <<>>
    /\ entryChan = <<>>
    /\ sent = <<>>
    /\ cancelled = FALSE
    /\ stopped = 0
    /\ sources = Register1
    /\ sourcesNil = FALSE
    /\ \E kind \in Kinds : ing = <<Started(NewIngestor(1, kind))>>
    /\ arrays = << <<>> >>
    /\ subHdr = [a |-> 1, len |-> 0]
    /\ sub = <<>>
    /\ delivered = <<>>
    /\ mu = [w |-> NoThread, r |-> {}]
    /\ pc = [t \in Threads |->
                IF t \in Clients THEN "idle"
                ELSE IF t = LoopSeq[1] THEN "select" ELSE "unborn"]
    /\ loc = [t \in Threads |-> NoLoc]
    /\ ret = [NoRet EXCEPT !.op = "AddSource", !.arg = 1]
    /\ nops = MaxFanOps
    /\ panicked = "none"

InitAgg == NewAggregator /\ IdleRB /\ IdleFile /\ IdleParse /\ IdleCfg

\* SpecAgg: every call, on an aggregator followed from its construction
SpecAgg == InitAgg /\ [][NextAgg]_vars

(***************************************************************************)
(* SpecFan: the fan-out of a running aggregator.  The clients subscribe,   *)
(* unsubscribe and stop while the loop drains the intake queue.            *)
(***************************************************************************)
FanClientStep ==
    \E t \in Clients :
        \/ \E id \in SubIDs : Subscribe(t, id)
        \/ \E id \in SubIDs : UnsubscribeFind(t, id)
        \/ UnsubscribeClose(t)
        \/ StopCancel(t)
        \/ StopLock(t)
        \/ StopSources(t)
        \/ StopRange(t)
        \/ StopIter(t)
        \/ StopReturn(t)

NextFan == FanClientStep \/ LoopStep \/ EnvStep

InitFan == Running /\ IdleRB /\ IdleFile /\ IdleParse /\ IdleCfg

SpecFan == InitFan /\ [][NextFan]_vars

\* the steps of a call that has already begun
ClientContinue ==
    \E t \in Clients :
        \/ UnsubscribeClose(t)
        \/ StopLock(t)
        \/ StopSources(t)
        \/ StopRange(t)
        \/ StopIter(t)
        \/ StopReturn(t)

\* FairFan: SpecFan where a goroutine that can run does run: the aggregation
\* loop and the calls in progress.  Nothing obliges a client to make a call,
\* an ingestor to send or a consumer to receive.
FairFan ==
    /\ SpecFan
    /\ WF_vars(LoopStep)
    /\ WF_vars(ClientContinue)

(***************************************************************************)
(* SpecIng: the intake of a running aggregator with a journal source, a    *)
(* file source and a subscriber, while the clients remove sources and stop *)
(***************************************************************************)
\* the aggregator after NewAggregator(n); Start(); Subscribe(1);
\* AddSource(journal named 1); AddSource(file named 2), both started
Ingesting ==
    /\ History = NewRingBuffer(HistCap)
    /\ histLog = <<>>
    /\ entryChan = <<>>
    /\ sent = <<>>
    /\ cancelled = FALSE
    /\ stopped = 0
    /\ sources = [n \in {1, 2} |-> n]
    /\ sourcesNil = FALSE
    /\ ing = <<Started(NewIngestor(1, "journal")), Started(NewIngestor(2, "file"))>>
    /\ arrays = << <<>>, <<1>> >>
    /\ subHdr = [a |-> 2, len |-> 1]
    /\ sub = <<[ID |-> 1, Ch |-> <<>>, closed |-> FALSE, chClosed |-> FALSE,
                mu |-> NoThread]>>
    /\ delivered = << <<>> >>
    /\ mu = [w |-> NoThread, r |-> {}]
    /\ pc = [t \in Threads |->
                IF t \in Clients THEN "idle"
                ELSE IF t = LoopSeq[1] THEN "select" ELSE "unborn"]
    /\ loc = [t \in Threads |-> NoLoc]
    /\ ret = [NoRet EXCEPT !.op = "AddSource", !.arg = 2]
    /\ nops = MaxIngOps
    /\ panicked = "none"

IngClientStep ==
    \E t \in Clients :
        \/ \E name \in Names : RemoveSourceFind(t, name)
        \/ RemoveSourceStop(t)
        \/ StopCancel(t)
        \/ StopLock(t)
        \/ StopSources(t)
        \/ StopRange(t)
        \/ StopIter(t)
        \/ StopReturn(t)

NextIng == IngClientStep \/ LoopStep \/ EnvStep

InitIng == Ingesting /\ IdleRB /\ IdleFile /\ IdleParse /\ IdleCfg

SpecIng == InitIng /\ [][NextIng]_vars

\* the steps of a RemoveSource or Stop call that has already begun
IngClientContinue ==
    \E t \in Clients :
        \/ RemoveSourceStop(t)
        \/ StopLock(t)
        \/ StopSources(t)
        \/ StopRange(t)
        \/ StopIter(t)
        \/ StopReturn(t)

\* a step of the read goroutine of an ingestor whose context is cancelled
WindDown(i) == i \in DOMAIN ing /\ Cancelled(ing[i]) /\ IngestorStep(i)

\* FairIng: SpecIng where a goroutine that can run does run: the aggregation
\* loop, the calls in progress and the read goroutines of cancelled
\* ingestors; a select with several ready cases takes each of them sooner or
\* later.  Nothing obliges a client to call or a source to produce.
FairIng ==
    /\ SpecIng
    /\ WF_vars(LoopStep)
    /\ WF_vars(IngClientContinue)
    /\ \A i \in IngIDs : WF_vars(WindDown(i)) /\ SF_vars(FileDone(i))

(***************************************************************************)
(* SpecSrc: one ingestor driven through the Ingestor interface by its      *)
(* owner: Start once, Stop any number of times, in any order               *)
(***************************************************************************)
\* NewJournalIngestor(config) or NewFileIngestor(config), an entries channel
\* and a parent context, nothing started
Constructed ==
    /\ History = NewRingBuffer(HistCap)
    /\ histLog = <<>>
    /\ entryChan = <<>>
    /\ sent = <<>>
    /\ cancelled = FALSE
    /\ stopped = 0
    /\ sources = [n \in {} |-> 0]
    /\ sourcesNil = FALSE
    /\ \E kind \in Kinds : ing = <<NewIngestor(1, kind)>>
    /\ arrays = << <<>> >>
    /\ subHdr = [a |-> 1, len |-> 0]
    /\ sub = <<>>
    /\ delivered = <<>>
    /\ mu = [w |-> NoThread, r |-> {}]
    /\ pc = [t \in Threads |-> IF t \in Clients THEN "idle" ELSE "unborn"]
    /\ loc = [t \in Threads |-> NoLoc]
    /\ ret = NoRet
    /\ nops = MaxSrcOps
    /\ panicked = "none"

\* what a call on the ingestor leaves alone
srcRest == <<History, histLog, entryChan, sent, stopped, sources, sourcesNil,
             arrays, subHdr, sub, delivered, mu, pc, loc, panicked>>

\* source.Start(ctx, entries), called once
SrcStart(i) ==
    /\ Alive
    /\ UNCHANGED sideVars
    /\ nops > 0
    /\ nops' = nops - 1
    /\ i \in DOMAIN ing
    /\ ing[i].st = "new"
    /\ \E ok \in BOOLEAN :
          /\ ing' = [ing EXCEPT ![i] = IF ok THEN Started(@) ELSE StartFailed(@)]
          /\ ret' = [NoRet EXCEPT !.op = "Start", !.arg = i, !.err = ~ok]
    /\ UNCHANGED <<cancelled, srcRest>>

\* source.Stop()
SrcStop(i) ==
    /\ Alive
    /\ UNCHANGED sideVars
    /\ nops > 0
    /\ nops' = nops - 1
    /\ i \in DOMAIN ing
    /\ ing' = [ing EXCEPT ![i] = IngestorStop(@)]
    /\ ret' = [NoRet EXCEPT !.op = "Stop", !.arg = i, !.err = StopErr(ing[i])]
    /\ UNCHANGED <<cancelled, srcRest>>

\* the owner cancels the parent context handed to Start
SrcCancelParent ==
    /\ Alive
    /\ UNCHANGED sideVars
    /\ nops > 0
    /\ nops' = nops - 1
    /\ ~cancelled
    /\ cancelled' = TRUE
    /\ UNCHANGED <<ing, ret, srcRest>>

\* the receiver of the entries channel takes the next entry
SrcReceive ==
    /\ Alive
    /\ UNCHANGED sideVars
    /\ entryChan # <<>>
    /\ entryChan' = Tail(entryChan)
    /\ histLog' = Append(histLog, Head(entryChan))
    /\ UNCHANGED <<History, sent, cancelled, stopped, sources, sourcesNil, ing,
                   arrays, subHdr, sub, delivered, mu, pc, loc, ret, nops, panicked>>

NextSrc ==
    \/ \E i \in IngIDs : SrcStart(i)
    \/ \E i \in IngIDs : SrcStop(i)
    \/ SrcCancelParent
    \/ SrcReceive
    \/ \E i \in IngIDs : IngestorStep(i)
    \/ \E i \in IngIDs : JournalScanBad(i)

InitSrc == Constructed /\ IdleRB /\ IdleFile /\ IdleParse /\ IdleCfg

SpecSrc == InitSrc /\ [][NextSrc]_vars

(***************************************************************************)
(* The file ingestor and the file it tails (SpecFile).  A file's content   *)
(* is a sequence of bytes: NL is the newline, every other byte is a        *)
(* payload character, and each payload character is written only once, so  *)
(* that a line is identified by its bytes.                                 *)
(***************************************************************************)
\* what a writer appends in one write: a whole line, a line without its
\* newline, or the newline alone
Chunk(kind, c) ==
    CASE kind = "line" -> <<c, NL>>
      [] kind = "part" -> <<c>>
      [] kind = "nl"   -> <<NL>>

\* f.watcher.Events after a change that the watcher reports as `kind`
\* (fsnotify.Write, Remove, Rename, Create), or does not report
Notify(notify, kind) == IF notify THEN Append(events, kind) ELSE events

\* a writer appends to the file that has the path
FsAppend(kind, notify) ==
    /\ fsops > 0
    /\ disk.path # NoFile
    /\ LET k == disk.path
           c == disk.next
       IN  disk' = [disk EXCEPT
                      !.files[k].content = @ \o Chunk(kind, c),
                      !.next = IF kind = "nl" THEN @ ELSE @ + 1]
    /\ events' = Notify(notify, "write")
    /\ fsops' = fsops - 1
    /\ UNCHANGED <<fi, offered, reads, rbVars, aggVars, call, cfg>>

\* a writer truncates the file that has the path to no bytes
FsTruncate(notify) ==
    /\ fsops > 0
    /\ disk.path # NoFile
    /\ disk.files[disk.path].content # <<>>
    /\ disk' = [disk EXCEPT !.files[disk.path] = [content |-> <<>>,
                                                  truncated |-> TRUE]]
    /\ events' = Notify(notify, "write")
    /\ fsops' = fsops - 1
    /\ UNCHANGED <<fi, offered, reads, rbVars, aggVars, call, cfg>>

\* the file is removed, or renamed away (log rotation): the path names
\* nothing, a handle that was open on the file stays open on it
FsRotate(kind) ==
    /\ fsops > 0
    /\ disk.path # NoFile
    /\ disk' = [disk EXCEPT !.path = NoFile]
    /\ events' = Append(events, kind)
    /\ fsops' = fsops - 1
    /\ UNCHANGED <<fi, offered, reads, rbVars, aggVars, call, cfg>>

\* a new, empty file is created at the path
FsCreate(notify) ==
    /\ fsops > 0
    /\ disk.path = NoFile
    /\ disk' = [disk EXCEPT
                  !.files = Append(@, [content |-> <<>>, truncated |-> FALSE]),
                  !.path = Len(disk.files) + 1]
    /\ events' = Notify(notify, "create")
    /\ fsops' = fsops - 1
    /\ UNCHANGED <<fi, offered, reads, rbVars, aggVars, call, cfg>>

\* bufio.Reader.ReadString('\n') repeated from byte `pos` of content c until
\* it returns an error: <<lines, n>>, the lines that ended in a newline, each
\* without it, and the number of bytes they took with their newlines. What
\* follows the last newline is returned with io.EOF and is not counted.
RECURSIVE ReadLines(_, _, _, _, _)
ReadLines(c, pos, cur, lines, n) ==
    IF pos > Len(c) THEN <<lines, n>>
    ELSE IF c[pos] = NL
         THEN ReadLines(c, pos + 1, <<>>, Append(lines, cur), n + Len(cur) + 1)
         ELSE ReadLines(c, pos + 1, Append(cur, c[pos]), lines, n)

\* the offset readNewLines reads from: zero when the file is now shorter
\* than the offset
StartOffsetKept(size, offset) == offset

StartOffset(size, offset) == IF size < offset THEN 0 ELSE offset

\* a readNewLines that hands on the empty lines too
KeepEmpty(lines) == lines

\* the lines with bytes, in order
NonEmpty(lines) == SelectSeq(lines, LAMBDA l : l # <<>>)

\* the entries of readNewLines for the lines it read from inode k, `room`
\* telling for each whether entryChan had room for it
Entries(k, lines, room) ==
    [i \in 1..Len(lines) |-> [ino |-> k, line |-> lines[i], sent |-> room[i]]]

\* watchLoop receives a notification with the Write bit: readNewLines
WatchWrite ==
    /\ fi.pc = "select"
    /\ events # <<>>
    /\ Head(events) = "write"
    /\ events' = Tail(events)
    /\ IF fi.file \in {NilFile, ClosedFile}
       THEN UNCHANGED <<fi, offered, reads>>
       ELSE LET c == disk.files[fi.file].content
                from == StartOffset(Len(c), fi.offset)
                r == ReadLines(c, from + 1, <<>>, <<>>, 0)
                lines == NonEmpty(r[1])
            IN  /\ fi' = [fi EXCEPT !.offset = from + r[2]]
                /\ \E room \in [1..Len(lines) -> BOOLEAN] :
                       offered' = offered \o Entries(fi.file, lines, room)
                /\ reads' = [ino |-> fi.file, content |-> c,
                             offset |-> fi.offset, lines |-> lines]
    /\ UNCHANGED <<disk, fsops, rbVars, aggVars, call, cfg>>

\* watchLoop receives a notification with the Remove or Rename bit:
\* handleRotation closes the handle and goes on to reopen the path
WatchRotate ==
    /\ fi.pc = "select"
    /\ events # <<>>
    /\ Head(events) \in {"remove", "rename"}
    /\ events' = Tail(events)
    /\ fi' = [fi EXCEPT !.file = IF @ = NilFile THEN NilFile ELSE ClosedFile,
                        !.pc = "reopen",
                        !.tries = 0]
    /\ UNCHANGED <<disk, offered, reads, fsops, rbVars, aggVars, call, cfg>>

\* watchLoop receives a notification with none of these bits
WatchOther ==
    /\ fi.pc = "select"
    /\ events # <<>>
    /\ Head(events) \notin {"write", "remove", "rename"}
    /\ events' = Tail(events)
    /\ UNCHANGED <<fi, disk, offered, reads, fsops, rbVars, aggVars, call, cfg>>

\* number of times handleRotation tries to open the path
ReopenAttempts == 10

\* os.Open(f.config.Path) succeeds: the offset is reset
ReopenOKKeepOffset ==
    /\ fi.pc = "reopen"
    /\ disk.path # NoFile
    /\ fi' = [fi EXCEPT !.file = disk.path, !.pc = "select",
                        !.reopened = TRUE,
                        !.openSize = Len(disk.files[disk.path].content)]
    /\ UNCHANGED <<disk, events, offered, reads, fsops, rbVars, aggVars, call, cfg>>

ReopenOK ==
    /\ fi.pc = "reopen"
    /\ disk.path # NoFile
    /\ fi' = [fi EXCEPT !.file = disk.path, !.offset = 0, !.pc = "select",
                        !.reopened = TRUE,
                        !.openSize = Len(disk.files[disk.path].content)]
    /\ UNCHANGED <<disk, events, offered, reads, fsops, rbVars, aggVars, call, cfg>>

\* os.Open fails and attempts are left: sleep and try again
ReopenRetry ==
    /\ fi.pc = "reopen"
    /\ disk.path = NoFile
    /\ fi.tries + 1 < ReopenAttempts
    /\ fi' = [fi EXCEPT !.file = NilFile, !.tries = @ + 1]
    /\ UNCHANGED <<disk, events, offered, reads, fsops, rbVars, aggVars, call, cfg>>

\* the last attempt fails: the source is unhealthy, handleRotation returns
ReopenGiveUp ==
    /\ fi.pc = "reopen"
    /\ disk.path = NoFile
    /\ fi.tries + 1 = ReopenAttempts
    /\ fi' = [fi EXCEPT !.file = NilFile, !.tries = @ + 1, !.healthy = FALSE,
                        !.pc = "select", !.gaveUp = TRUE]
    /\ UNCHANGED <<disk, events, offered, reads, fsops, rbVars, aggVars, call, cfg>>

\* FileIngestor.Stop
FileStop ==
    /\ ~fi.cancelled
    /\ fi' = [fi EXCEPT !.cancelled = TRUE]
    /\ UNCHANGED <<disk, events, offered, reads, fsops, rbVars, aggVars, call, cfg>>

\* watchLoop finds its context cancelled and returns; its deferred calls run
WatchDone ==
    /\ fi.pc = "select"
    /\ fi.cancelled
    /\ fi' = [fi EXCEPT !.pc = "done", !.healthy = FALSE]
    /\ UNCHANGED <<disk, events, offered, reads, fsops, rbVars, aggVars, call, cfg>>

\* FileIngestor.Start has returned nil: the file, with the content it has by
\* then, is open at its end, the path is watched, watchLoop is running
FileStarted ==
    /\ \E c \in {<<>>, <<1, NL>>, <<1, NL, 2, NL>>} :
        /\ disk = [path |-> 1,
                   files |-> <<[content |-> c, truncated |-> FALSE]>>,
                   next |-> 3]
        /\ fi = [file |-> 1, offset |-> Len(c), healthy |-> TRUE,
                 cancelled |-> FALSE, pc |-> "select", tries |-> 0,
                 reopened |-> FALSE, openSize |-> Len(c), gaveUp |-> FALSE]
    /\ events = <<>>
    /\ offered = <<>>
    /\ reads = NoRead
    /\ fsops = MaxFsOps

NextFile ==
    \/ \E kind \in {"line", "part", "nl"}, notify \in BOOLEAN :
           FsAppend(kind, notify)
    \/ \E notify \in BOOLEAN : FsTruncate(notify)
    \/ \E kind \in {"remove", "rename"} : FsRotate(kind)
    \/ \E notify \in BOOLEAN : FsCreate(notify)
    \/ WatchWrite
    \/ WatchRotate
    \/ WatchOther
    \/ ReopenOK
    \/ ReopenRetry
    \/ ReopenGiveUp
    \/ FileStop
    \/ WatchDone

InitFile == FileStarted /\ IdleRB /\ NewAggregator /\ IdleParse /\ IdleCfg

SpecFile == InitFile /\ [][NextFile]_vars

(***************************************************************************)
(* The parsers of the ingestors (SpecParse).  A Go string is the sequence  *)
(* of its characters.                                                      *)
(***************************************************************************)
\* the severities of LogLevel
LevelUnknown == "unknown"

\* the decimal digits, the digit of n at place n + 1
Digits == <<"0", "1", "2", "3", "4", "5", "6", "7", "8", "9">>

\* strconv.Atoi(s): [ok, val]; an optional sign, then one or more digits
RECURSIVE DecVal(_)
DecVal(ds) ==
    IF ds = <<>> THEN 0
    ELSE 10 * DecVal(SubSeq(ds, 1, Len(ds) - 1))
         + (CHOOSE n \in 0..9 : Digits[n + 1] = ds[Len(ds)])

Atoi(s) ==
    LET signed == s # <<>> /\ s[1] \in {"+", "-"}
        ds == IF signed THEN Tail(s) ELSE s
        ok == ds # <<>> /\ \A i \in DOMAIN ds : \E n \in DOMAIN Digits : Digits[n] = ds[i]
    IN  [ok |-> ok,
         val |-> IF ~ok THEN 0
                 ELSE IF signed /\ s[1] = "-" THEN 0 - DecVal(ds) ELSE DecVal(ds)]

\* priorityToLevel(priority)
priorityToLevelFromOne(priority) ==
    CASE priority = 1 -> "emergency"
      [] priority = 2 -> "alert"
      [] priority = 3 -> "critical"
      [] priority = 4 -> "error"
      [] priority = 5 -> "warning"
      [] priority = 6 -> "notice"
      [] priority = 7 -> "info"
      [] priority = 8 -> "debug"
      [] OTHER -> LevelUnknown

priorityToLevel(priority) ==
    CASE priority = 0 -> "emergency"
      [] priority = 1 -> "alert"
      [] priority = 2 -> "critical"
      [] priority = 3 -> "error"
      [] priority = 4 -> "warning"
      [] priority = 5 -> "notice"
      [] priority = 6 -> "info"
      [] priority = 7 -> "debug"
      [] OTHER -> LevelUnknown

\* what the JSON object of a journal line has as PRIORITY: a string, nothing,
\* or a value that is not a string
FieldKinds == {"string", "absent", "other"}

\* json.Unmarshal of a line into a journalEntry: a field that is absent
\* leaves the empty string; a line that is not a JSON object, or whose
\* PRIORITY is not a JSON string, is an error
Unmarshal(line) ==
    [err |-> ~line.json \/ line.kind = "other",
     Priority |-> IF line.kind = "string" THEN line.priority ELSE <<>>,
     Message |-> line.message]

\* parseJournalEntry(line): [err, level, message]
parseJournalEntry(line) ==
    LET je == Unmarshal(line)
        prio == Atoi(je.Priority)
    IN  IF je.err THEN [err |-> TRUE, level |-> LevelUnknown, message |-> <<>>]
        ELSE [err |-> FALSE,
              level |-> IF je.Priority # <<>> /\ prio.ok
                        THEN priorityToLevel(prio.val)
                        ELSE LevelUnknown,
              message |-> je.Message]

\* the letters, in lower and in upper case
Lower == <<"a", "b", "c", "d", "e", "f", "g", "h", "i", "j", "k", "l", "m", "n", "o", "p", "q", "r", "s", "t", "u", "v", "w", "x", "y", "z">>

Upper == <<"A", "B", "C", "D", "E", "F", "G", "H", "I", "J", "K", "L", "M", "N", "O", "P", "Q", "R", "S", "T", "U", "V", "W", "X", "Y", "Z">>

\* strings.ToUpper(s)
ToUpper(s) ==
    [i \in DOMAIN s |->
        IF \E k \in DOMAIN Lower : Lower[k] = s[i]
        THEN Upper[CHOOSE k \in DOMAIN Lower : Lower[k] = s[i]]
        ELSE s[i]]

\* strings.Contains(s, substr)
Contains(s, substr) ==
    \E i \in 0..(Len(s) - Len(substr)) : SubSeq(s, i + 1, i + Len(substr)) = substr

\* detectLevel(line)
detectLevelLeastFirst(line) ==
    LET upper == ToUpper(line)
    IN  CASE Contains(upper, <<"D", "E", "B", "U", "G">>)
                 \/ Contains(upper, <<"T", "R", "A", "C", "E">>) -> "debug"
          [] Contains(upper, <<"I", "N", "F", "O">>) -> "info"
          [] Contains(upper, <<"N", "O", "T", "I", "C", "E">>) -> "notice"
          [] Contains(upper, <<"W", "A", "R", "N">>)
                 \/ Contains(upper, <<"W", "A", "R", "N", "I", "N", "G">>) -> "warning"
          [] Contains(upper, <<"E", "R", "R", "O", "R">>)
                 \/ Contains(upper, <<"E", "R", "R">>) -> "error"
          [] Contains(upper, <<"C", "R", "I", "T">>)
                 \/ Contains(upper, <<"C", "R", "I", "T", "I", "C", "A", "L">>) -> "critical"
          [] Contains(upper, <<"A", "L", "E", "R", "T">>) -> "alert"
          [] Contains(upper, <<"E", "M", "E", "R", "G">>)
                 \/ Contains(upper, <<"E", "M", "E", "R", "G", "E", "N", "C", "Y">>) -> "emergency"
          [] OTHER -> LevelUnknown

detectLevel(line) ==
    LET upper == ToUpper(line)
    IN  IF Contains(upper, <<"E", "M", "E", "R", "G">>)
           \/ Contains(upper, <<"E", "M", "E", "R", "G", "E", "N", "C", "Y">>)
        THEN "emergency"
        ELSE IF Contains(upper, <<"A", "L", "E", "R", "T">>)
        THEN "alert"
        ELSE IF Contains(upper, <<"C", "R", "I", "T">>)
                \/ Contains(upper, <<"C", "R", "I", "T", "I", "C", "A", "L">>)
        THEN "critical"
        ELSE IF Contains(upper, <<"E", "R", "R", "O", "R">>)
                \/ Contains(upper, <<"E", "R", "R">>)
        THEN "error"
        ELSE IF Contains(upper, <<"W", "A", "R", "N">>)
                \/ Contains(upper, <<"W", "A", "R", "N", "I", "N", "G">>)
        THEN "warning"
        ELSE IF Contains(upper, <<"N", "O", "T", "I", "C", "E">>)
        THEN "notice"
        ELSE IF Contains(upper, <<"I", "N", "F", "O">>)
        THEN "info"
        ELSE IF Contains(upper, <<"D", "E", "B", "U", "G">>)
                \/ Contains(upper, <<"T", "R", "A", "C", "E">>)
        THEN "debug"
        ELSE LevelUnknown

\* a prefix that syslogRegex matches: timestamp, hostname, process, colon
SyslogPrefix == <<"J", "a", "n", " ", "1", " ", "0", "0", ":", "0", "0", ":", "0", "0", " ", "h", " ", "p", ":", " ">>

\* parseSyslogLine(line): whether syslogRegex matches, and the message; of
\* the lines of this model the regex matches those that begin with SyslogPrefix
parseSyslogLine(line) ==
    LET n == Len(SyslogPrefix)
        matched == Len(line) >= n /\ SubSeq(line, 1, n) = SyslogPrefix
    IN  [matched |-> matched,
         message |-> IF matched THEN SubSeq(line, n + 1, Len(line)) ELSE <<>>]

\* FileIngestor.parseLine(line): [level, message, syslog]
parseLine(line) ==
    LET parsed == parseSyslogLine(line)
    IN  [level |-> detectLevel(line),
         message |-> IF parsed.matched THEN parsed.message ELSE line,
         syslog |-> parsed.matched]

\* the PRIORITY strings of the journal lines parsed: up to MaxDigits
\* characters of these
Priorities ==
    UNION {[1..n -> {"0", "3", "7", "8", "-", "+", "x"}] : n \in 0..MaxDigits}

\* the words of the file lines parsed
Words == {<<"e", "r", "r", "o", "r">>,
          <<"D", "e", "b", "u", "g">>,
          <<"W", "A", "R", "N">>,
          <<"s", "t", "d", "e", "r", "r">>,
          <<"i", "n", "f", "o">>,
          <<"C", "r", "i", "t", "i", "c", "a", "l">>,
          <<"a", "l", "e", "r", "t">>,
          <<"E", "m", "e", "r", "g">>,
          <<"n", "o", "t", "i", "c", "e">>,
          <<"t", "r", "a", "c", "e">>,
          <<"o", "k">>}

\* the file lines parsed: up to MaxWords words with blanks between them,
\* with or without the syslog prefix
RECURSIVE Join(_)
Join(ws) ==
    IF Len(ws) = 1 THEN ws[1] ELSE ws[1] \o <<" ">> \o Join(Tail(ws))

Lines ==
    LET bodies == {Join(ws) : ws \in UNION {[1..n -> Words] : n \in 1..MaxWords}}
    IN  bodies \cup {SyslogPrefix \o b : b \in bodies}

\* j.parseJournalEntry(line) is called, on any of the journal lines
ParseJournalEntry ==
    /\ call.fn = "none"
    /\ \E json \in BOOLEAN, kind \in FieldKinds, p \in Priorities,
          m \in {<<>>, <<"d", "i", "s", "k", " ", "f", "a", "i", "l", "u", "r", "e">>} :
          LET line == [json |-> json, kind |-> kind,
                       priority |-> IF kind = "string" THEN p ELSE <<>>,
                       message |-> m]
          IN  call' = [fn |-> "parseJournalEntry", arg |-> line,
                       out |-> parseJournalEntry(line)]
    /\ UNCHANGED <<rbVars, aggVars, fileVars, cfg>>

\* f.parseLine(line) is called, on any of the file lines
ParseLine ==
    /\ call.fn = "none"
    /\ \E line \in Lines :
          call' = [fn |-> "parseLine", arg |-> line, out |-> parseLine(line)]
    /\ UNCHANGED <<rbVars, aggVars, fileVars, cfg>>

NextParse == ParseJournalEntry \/ ParseLine

InitParse == IdleParse /\ IdleFile /\ IdleRB /\ NewAggregator /\ IdleCfg

SpecParse == InitParse /\ [][NextParse]_vars

NextRB == RBPush \/ RBClear \/ RBGetAll \/ RBGetLast \/ RBCount

InitRB == FreshRB /\ NewAggregator /\ IdleFile /\ IdleParse /\ IdleCfg

SpecRB == InitRB /\ [][NextRB]_vars

\* the calls on the source list of a Config, with the names of the default
\* source, of a new one and of none
NextCfg ==
    \/ \E n \in {"System Journal", "New Source"}, p \in {"", "/var/log/test.log"} :
           CfgAddSource([Name |-> n, Path |-> p])
    \/ \E n \in {"System Journal", "New Source", "Nonexistent"} :
           CfgRemoveSource(n)

InitCfg == IdleCfg /\ IdleRB /\ NewAggregator /\ IdleFile /\ IdleParse

\* SpecCfg: AddSource and RemoveSource on a Config, from DefaultConfig()
SpecCfg == InitCfg /\ [][NextCfg]_vars

(***************************************************************************)
(* Properties of the ring buffer                                           *)
(***************************************************************************)
\* the last n elements of a sequence
LastN(s, n) == SubSeq(s, Len(s) - n + 1, Len(s))

Min(a, b) == IF a < b THEN a ELSE b

\* the array read from the write cursor forward, with wrap-around
ReadFromCursor(b) == [i \in 1..b.size |-> b.entries[(b.writeAt + i - 1) % b.size]]

\* C1: on a fresh buffer of capacity C that received N > C pushes, Count() is C
\* and GetAll() is the last C pushed entries in push order, oldest first.
C1_Overflow ==
    (~cleared /\ Len(pushed) > rb.size) =>
        /\ Count(rb) = rb.size
        /\ GetAll(rb) = LastN(pushed, rb.size)
        /\ (op[1] = "GetAll" => res = LastN(pushed, rb.size))
        /\ (op[1] = "Count" => res = <<rb.size>>)

C1_Witness ==
    /\ ~cleared
    /\ rb.size = 3
    /\ Len(pushed) = 5
    /\ op[1] = "GetAll"
    /\ res = <<3, 4, 5>>

\* C2: on a fresh buffer of capacity C that received N <= C pushes, GetAll() is
\* exactly the N pushed entries in push order and Count() is N.
C2_NoOverflow ==
    (~cleared /\ Len(pushed) <= rb.size) =>
        /\ Count(rb) = Len(pushed)
        /\ GetAll(rb) = pushed
        /\ (op[1] = "GetAll" => res = pushed)
        /\ (op[1] = "Count" => res = <<Len(pushed)>>)

C2_Witness ==
    /\ ~cleared
    /\ rb.size = 3
    /\ op[1] = "GetAll"
    /\ res = <<1, 2>>

\* C3: in every state reached by Push and Clear, GetLast(k) is the last
\* min(k, Count()) pushed entries in push order, also when the range wraps
\* around the end of the array; it is empty for k <= 0 and on an empty buffer.
C3_GetLast ==
    /\ \A k \in -1..(MaxCap + 2) :
          GetLast(rb, k) = IF k <= 0 \/ Count(rb) = 0 THEN <<>>
                           ELSE LastN(pushed, Min(k, Count(rb)))
    /\ op[1] = "GetLast" =>
          res = IF op[2] <= 0 \/ Count(rb) = 0 THEN <<>>
                ELSE LastN(pushed, Min(op[2], Count(rb)))

\* a GetLast whose range wraps around the end of the array, after a Clear
C3_Witness ==
    /\ cleared
    /\ rb.size = 3
    /\ rb.count = 3
    /\ rb.writeAt = 1
    /\ op = <<"GetLast", 2>>
    /\ Len(res) = 2
    /\ res = LastN(pushed, 2)

\* C4: after Clear() the buffer answers Count, GetAll and GetLast as a freshly
\* constructed buffer of the same capacity given the same pushes does; Count()
\* is 0 right after Clear() and no entry pushed before the Clear is returned.
C4_ClearIsFresh ==
    /\ cleared =>
          /\ Count(rb) = Count(fresh)
          /\ GetAll(rb) = GetAll(fresh)
          /\ \A k \in -1..(MaxCap + 2) : GetLast(rb, k) = GetLast(fresh, k)
          /\ \A i \in 1..Len(GetAll(rb)) : GetAll(rb)[i] > mark
          /\ (op[1] \in {"GetAll", "GetLast"} => \A i \in 1..Len(res) : res[i] > mark)
    /\ op[1] = "Clear" => Count(rb) = 0 /\ GetAll(rb) = <<>>

\* a wrapped buffer was cleared, pushed to again, and read
C4_Witness ==
    /\ cleared
    /\ rb.size = 2
    /\ mark = 3
    /\ Len(pushed) = 5
    /\ op[1] = "GetAll"
    /\ res = <<4, 5>>

\* C5 (state part): 0 <= count <= capacity, 0 <= writeAt < capacity, and in a
\* full buffer the array read from the write cursor forward, wrapping around,
\* is the live entries in push order.
C5_Bounds ==
    /\ 0 <= rb.count /\ rb.count <= rb.size
    /\ 0 <= rb.writeAt /\ rb.writeAt < rb.size
    /\ rb.count = rb.size => ReadFromCursor(rb) = LastN(pushed, rb.size)

\* C5 (step part): a Push on a full buffer replaces the slot holding the oldest
\* live entry and no other slot.
C5_PushStep ==
    (rb.count = rb.size /\ op'[1] = "Push" /\ pushed' # pushed) =>
        LET oldest == pushed[Len(pushed) - rb.size + 1]
        IN  /\ rb.entries[rb.writeAt] = oldest
            /\ rb'.entries[rb.writeAt] = pushed'[Len(pushed')]
            /\ \A i \in 0..(rb.size - 1) :
                  i # rb.writeAt => rb'.entries[i] = rb.entries[i]
            /\ rb'.count = rb.size

\* C5: in every reachable state count and writeAt are within the capacity; once
\* the buffer is full every Push overwrites the oldest slot, and the order of
\* the live entries is the array read from the write cursor with wrap-around.
C5_RingInvariant == [](C5_Bounds) /\ [][C5_PushStep]_vars

\* a full buffer of capacity 3 whose write cursor is inside the array
C5_Witness ==
    /\ rb.size = 3
    /\ rb.count = 3
    /\ rb.writeAt = 2
    /\ op[1] = "Push"
    /\ Len(pushed) = 5

(***************************************************************************)
(* Properties of the aggregator's fan-out                                  *)
(***************************************************************************)
Range(s) == {s[i] : i \in DOMAIN s}

\* the step in which loop l makes its send attempt to one subscriber
IsSendStep(l) == pc[l] = "bcast_send" /\ pc'[l] = "bcast_iter" /\ panicked' = "none"

\* C6 (step part): the send attempt to a subscriber appends the entry to that
\* subscriber's queue when it is open and has room, leaves the queue as it is
\* when it is full, and touches neither another subscriber's queue nor the
\* ring buffer, which already holds the entry.
C6_SendStep ==
    \A l \in Loops :
        IsSendStep(l) =>
            LET o == loc[l].obj
                e == loc[l].entry
            IN  /\ e \in Range(histLog)
                /\ \E i \in 0..(History.size - 1) : History.entries[i] = e
                /\ History' = History
                /\ histLog' = histLog
                /\ \A q \in DOMAIN sub : q # o => sub'[q].Ch = sub[q].Ch
                /\ (~sub[o].closed /\ Len(sub[o].Ch) < SubChanCap)
                      => sub'[o].Ch = Append(sub[o].Ch, e)
                /\ (sub[o].closed \/ Len(sub[o].Ch) >= SubChanCap)
                      => sub'[o].Ch = sub[o].Ch

\* C6 (state part): no subscriber queue holds more than its capacity, so a
\* subscriber that never reads has been given at most that many entries.
C6_Queues ==
    \A o \in DOMAIN sub :
        /\ Len(sub[o].Ch) <= SubChanCap
        /\ Len(delivered[o]) - Len(sub[o].Ch) >= 0
        /\ sub[o].Ch = LastN(delivered[o], Len(sub[o].Ch))

\* C6: broadcast attempts a non-blocking enqueue per subscriber; a full queue
\* loses the entry for that subscriber only, while the ring buffer records it
\* and every other subscriber with room receives it.
C6_Broadcast == [](C6_Queues) /\ [][C6_SendStep]_vars

\* two entries went through the loop: the subscriber that never read holds the
\* first one only, the subscriber that read was given both
C6_Witness ==
    /\ histLog = <<1, 2>>
    /\ Len(sub) = 2
    /\ delivered[1] = <<1>>
    /\ sub[1].Ch = <<1>>
    /\ delivered[2] = <<1, 2>>
    /\ ~sub[1].closed
    /\ ~sub[2].closed
    /\ pc[LoopSeq[1]] = "select"

\* entry e waits in the intake queue
InIntake(e) == e \in Range(entryChan)

\* entry e is in the history and its broadcast has gone round the subscribers
Handled(e) == e \in Range(histLog) /\ \A l \in Loops : loc[l].entry # e

C8_NoSendOnClosed ==
    /\ panicked # "send on closed channel"
    /\ \A l \in Loops :
          (pc[l] = "bcast_send" /\ ~loc[l].saw) => ~sub[loc[l].obj].chClosed

\* a broadcast is about to send to a subscriber that a concurrent Stop is
\* waiting to close
C8_Witness ==
    \E l \in Loops, t \in Clients :
        /\ pc[l] = "bcast_send"
        /\ ~loc[l].saw
        /\ sub[loc[l].obj].mu = l
        /\ pc[t] = "stop_iter"
        /\ loc[t].idx <= loc[t].vlen
        /\ loc[t].idx <= Len(arrays[loc[t].va])
        /\ arrays[loc[t].va][loc[t].idx] = loc[l].obj

\* C9 (step part): what holds when a Stop() call hands out its Stop() calls
\* to the sources and when it returns.
C9_StopSteps ==
    \A t \in Clients :
        /\ (pc[t] = "stop_sources" /\ pc'[t] = "stop_range") =>
              /\ \A n \in DOMAIN sources :
                    ing'[sources[n]].stops = ing[sources[n]].stops + 1
              /\ DOMAIN sources' = {}
        /\ (pc[t] = "stop_iter" /\ pc'[t] = "idle") =>
              /\ cancelled'
              /\ DOMAIN sources' = {}
              /\ \A o \in DOMAIN sub' : sub'[o].chClosed

\* C9: when Stop() returns, the root context is cancelled, every registered
\* ingestor has had Stop called, the source registry is empty and every
\* subscriber queue is closed, also when Subscribe or Unsubscribe ran
\* concurrently.
C9_AfterStop == [][C9_StopSteps]_vars

\* C10: when AddSource returns the start error of the ingestor, the name of
\* the source is neither in GetSources() nor in GetSourceHealth().
C10_FailedStartNotRegistered ==
    (ret.op = "AddSource" /\ ret.err) =>
        /\ ret.arg \notin DOMAIN sources
        /\ \A h \in SourceHealth : h[1] # ret.arg

(***************************************************************************)
(* Properties of the lifecycle, the ordering and the shutdown              *)
(***************************************************************************)
\* the aggregation loops that have been launched and have not returned
RunningLoops == {l \in Loops : pc[l] \notin {"unborn", "done"}}

\* a step that takes an entry out of the intake queue
IsDrainStep == Len(entryChan') < Len(entryChan)

\* C11: for any sequence of Start and Stop calls at most one aggregation loop
\* is draining the intake queue, and no loop takes an entry out of it after
\* Stop() has returned.
C11_OneLoopUntilStop ==
    /\ [](Cardinality(RunningLoops) <= 1)
    /\ [][stopped > 0 => ~IsDrainStep]_vars

\* entries of one ingestor stand in q in the order the ingestor produced them
SameSourceOrdered(q) ==
    \A p, r \in DOMAIN q :
        (p < r /\ sent[q[p]] = sent[q[r]]) => q[p] < q[r]

\* the entries that arrived in the intake queue, in their order of arrival:
\* those pushed, the one the loop holds and has not pushed, those queued
Arrived ==
    histLog
    \o (IF pc[LoopSeq[1]] = "push" THEN <<loc[LoopSeq[1]].entry>> ELSE <<>>)
    \o entryChan

\* C12 (step part): the order of arrival in the intake queue is the order of
\* the pushes; a step only adds a new arrival at the end
C12_ArrivalStep ==
    \/ Arrived' = Arrived
    \/ \E e \in 1..MaxEvents : Arrived' = Append(Arrived, e)

IsIntakeSend(i) ==
    /\ Len(entryChan') = Len(entryChan) + 1
    /\ sent[entryChan'[Len(entryChan')]] = i

\* C13: once the context of an ingestor is cancelled, by its own Stop() or by
\* the aggregator's root context, the ingestor completes no further send into
\* the intake queue.
C13_NoSendAfterCancel ==
    [][\A i \in DOMAIN ing : Cancelled(ing[i]) => ~IsIntakeSend(i)]_vars

\* every read goroutine and every aggregation loop has returned and Stop()
\* has returned
Terminated ==
    /\ \A i \in DOMAIN ing : ing[i].st # "running"
    /\ RunningLoops = {}
    /\ stopped > 0
    /\ \A t \in Clients : pc[t] = "idle"

\* C14: once Stop() has been called, whatever the intake queue holds and
\* whatever sends are pending, every read goroutine and the aggregation loop
\* terminate and Stop() returns.
C14_ShutdownTerminates == cancelled ~> Terminated

\* Stop() has cancelled the context while the intake queue is full and the
\* journal goroutine waits in its send
C14_Witness ==
    /\ cancelled
    /\ \E t \in Clients : pc[t] = "stop_lock"
    /\ Len(entryChan) = IntakeCap
    /\ \E i \in DOMAIN ing : ing[i].ipc = "send"
    /\ \E i \in DOMAIN ing : ing[i].kind = "file" /\ ing[i].st = "running"

\* C15: an ingestor that has an entry to forward never waits for room in the
\* intake queue: with the queue full it drops the entry and goes on.
C15_NeverWaitsForRoom ==
    \A i \in DOMAIN ing :
        ing[i].ipc = "send" => Len(entryChan) < IntakeCap

\* a step in which Start or Stop of ingestor i is executed
IsIngestorCall(i) ==
    \/ ing'[i].stops # ing[i].stops
    \/ ing[i].st = "new" /\ ing'[i].st # "new"

\* C16: no goroutine executes Start or Stop of an ingestor while it holds
\* a.mu; in AddSource, RemoveSource and Stop the lock covers the map edit only.
C16_NoIngestorCallUnderLock ==
    [][\A i \in DOMAIN ing, t \in Clients :
          (IsIngestorCall(i) /\ pc'[t] # pc[t]) => mu.w # t]_vars

\* C17: nothing but Stop() ends the aggregation loop: while Stop() has not
\* been called no loop has returned and no goroutine has panicked, whatever
\* was dropped, whichever subscriber was closed or removed and whichever
\* source failed to start or lost its transport; a loop waiting at its select
\* takes the next entry of the intake queue.
C17_OnlyStopEndsLoop ==
    ~cancelled =>
        /\ panicked = "none"
        /\ \A l \in Loops :
              /\ pc[l] # "done"
              /\ (pc[l] = "select" /\ entryChan # <<>>) => ENABLED LoopRecv(l)

\* the source has lost its transport and a delivery was dropped; the loop has
\* pushed both entries and waits for the next
C17_Witness ==
    /\ ~cancelled
    /\ \E i \in DOMAIN ing : ing[i].st = "exited"
    /\ histLog = <<1, 2>>
    /\ \E o \in DOMAIN sub : delivered[o] = <<1>> /\ sub[o].Ch = <<1>>
    /\ pc[LoopSeq[1]] = "select"

\* C18: once Stop() has returned, the queue of every subscriber handed out by
\* Subscribe, whenever it was called, is closed or becomes closed, so that a
\* consumer reading it terminates.
C18_StreamEndsAfterStop ==
    (stopped > 0) ~> (\A o \in DOMAIN sub : sub[o].chClosed)

\* q is p with some of its elements left out
RECURSIVE IsSubsequence(_, _)
IsSubsequence(q, p) ==
    IF q = <<>> THEN TRUE
    ELSE IF p = <<>> THEN FALSE
    ELSE IF Head(q) = Head(p) THEN IsSubsequence(Tail(q), Tail(p))
    ELSE IsSubsequence(q, Tail(p))

\* C19: what a subscriber has been given is a subsequence of the sequence of
\* pushes into the history, without repetition: every entry was pushed before
\* it was delivered and is delivered to a subscriber at most once.
C19_PushBeforeFanOut ==
    \A o \in DOMAIN delivered :
        /\ IsSubsequence(delivered[o], histLog)
        /\ \A p, r \in DOMAIN delivered[o] :
              p # r => delivered[o][p] # delivered[o][r]
        /\ \A l \in Loops :
              pc[l] \in {"bcast", "bcast_iter", "bcast_send"}
                  => loc[l].entry \in Range(histLog)

\* the first subscriber was given both entries, the second one subscribed
\* after the first entry and was given the second only
C19_Witness ==
    /\ histLog = <<1, 2>>
    /\ Len(sub) = 2
    /\ delivered[1] = <<1, 2>>
    /\ delivered[2] = <<2>>

\* the subscribers no longer in the registry after Unsubscribe
Unsubscribed == {o \in DOMAIN sub : sub[o].closed /\ o \notin Range(Subscribers)}

\* C20 (step part): what the returning step of Unsubscribe(id) does for a
\* registered id and for an unknown id, and what later steps leave alone
C20_UnsubscribeStep ==
    /\ \A t \in Clients :
          (pc[t] = "unsub_close" /\ pc'[t] = "idle" /\ panicked' = "none") =>
              LET o == loc[t].obj
                  i == loc[t].idx
              IN  /\ sub'[o].closed
                  /\ sub'[o].chClosed
                  /\ sub'[o].Ch = sub[o].Ch
                  /\ Subscribers' = SubSeq(Subscribers, 1, i - 1)
                                    \o SubSeq(Subscribers, i + 1, Len(Subscribers))
                  /\ o \notin Range(Subscribers')
                  /\ \A q \in DOMAIN sub : q # o => sub'[q] = sub[q]
    /\ \A t \in Clients :
          (pc[t] = "idle" /\ pc' = pc /\ nops' < nops
             /\ ret'.op = "Unsubscribe") =>
              /\ FindSub(ret'.arg) = 0
              /\ sub' = sub
              /\ Subscribers' = Subscribers
    /\ \A o \in Unsubscribed :
          /\ delivered'[o] = delivered[o]
          /\ Len(sub'[o].Ch) <= Len(sub[o].Ch)
          /\ sub'[o].chClosed
          /\ o \notin Range(Subscribers')

IsRemoveUnknown(t) ==
    /\ pc[t] = "idle"
    /\ pc' = pc
    /\ nops' < nops
    /\ ret'.op = "RemoveSource"

\* C21: RemoveSource(name) of a name that is not registered returns nil,
\* calls Stop on no ingestor and leaves the registry and the rest of the
\* aggregator as they were.
C21_RemoveUnknown ==
    [][\A t \in Clients :
          IsRemoveUnknown(t) =>
              /\ ret'.arg \notin DOMAIN sources
              /\ ~ret'.err
              /\ panicked' = "none"
              /\ UNCHANGED <<History, histLog, entryChan, sent, cancelled, stopped,
                             sources, sourcesNil, ing, arrays, subHdr, sub,
                             delivered, mu, pc, loc>>]_vars

\* RemoveSource of a name that is not registered has returned; the source
\* that is registered has not been stopped
C21_Witness ==
    /\ ret.op = "RemoveSource"
    /\ DOMAIN sources # {}
    /\ ret.arg \notin DOMAIN sources
    /\ \A i \in DOMAIN ing : ing[i].stops = 0 /\ ing[i].st = "running"

(***************************************************************************)
(* Properties of an ingestor's Stop and health                             *)
(***************************************************************************)
\* a step in which Stop() of ingestor i is called and returns
IsIngestorStop(i) == ing'[i].stops = ing[i].stops + 1

\* C22: Stop() of an ingestor never panics, whatever the state of the
\* ingestor, and a repeated call returns what the first call returned.
C22_StopIdempotent ==
    [][\A i \in DOMAIN ing :
          IsIngestorStop(i) =>
              /\ panicked' = "none"
              /\ ing[i].stops >= 1 => ing'[i].stopErr = ing[i].stopErr]_vars

\* the journal ingestors
Journals == {i \in DOMAIN ing : ing[i].kind = "journal"}

\* C23 (state part): a journal ingestor is healthy only after a successful
\* Start, while its read goroutine runs and its process has not been waited
\* for
C23_HealthyOnlyWhileRunning ==
    \A i \in Journals :
        ing[i].healthy => (ing[i].st = "running" /\ ing[i].proc # "reaped")

\* C23 (step part): a successful Start sets the flag, and a flag that has
\* gone false after Start stays false
C23_HealthStep ==
    \A i \in Journals :
        /\ (ing[i].st = "new" /\ ing'[i].st = "running") => ing'[i].healthy
        /\ (ing[i].st # "new" /\ ~ing[i].healthy) => ~ing'[i].healthy

\* C23: the health of a journal ingestor is false before Start, true once the
\* process has started, false once the process has exited or the stream has
\* ended, cancellation included, and never true again.
C23_JournalHealth ==
    /\ [](C23_HealthyOnlyWhileRunning)
    /\ [][C23_HealthStep]_vars

\* the process has exited and was waited for while the read goroutine still
\* waits in its send: the flag is false
C23_Witness ==
    \E i \in Journals :
        /\ ing[i].proc = "reaped"
        /\ ing[i].st = "running"
        /\ ing[i].ipc = "send"
        /\ ~ing[i].healthy

(***************************************************************************)
(* Properties of the file ingestor                                         *)
(***************************************************************************)
\* the positions of the newlines of content c
NLPos(c) == {i \in 1..Len(c) : c[i] = NL}

\* the position of the last newline of c at or before position p, or 0
LastNL(c, p) ==
    LET before == {q \in NLPos(c) : q <= p}
    IN  IF before = {} THEN 0
        ELSE CHOOSE q \in before : \A r \in before : r <= q

\* the lines of c that end in a newline, each without it, in file order
CompleteLines(c) ==
    [j \in 1..Cardinality(NLPos(c)) |->
        LET p == CHOOSE q \in NLPos(c) :
                     Cardinality({r \in NLPos(c) : r <= q}) = j
        IN  SubSeq(c, LastNL(c, p - 1) + 1, p - 1)]

\* the lines of a sequence of entries
LinesOf(es) == [i \in 1..Len(es) |-> es[i].line]

\* the handle of the ingestor is open on a file
FileOpen == fi.file \notin {NilFile, ClosedFile}

\* this step is a call of readNewLines that reaches the file
IsReadStep ==
    /\ fi.pc = "select"
    /\ events # <<>>
    /\ Head(events) = "write"
    /\ events' = Tail(events)
    /\ FileOpen

\* this step is watchLoop receiving a notification
IsReceiveStep ==
    /\ fi.pc = "select"
    /\ events # <<>>
    /\ events' = Tail(events)

\* this step is an os.Open of handleRotation that succeeds
IsReopenStep == fi.pc = "reopen" /\ fi'.pc = "select" /\ fi'.file # NilFile

\* C24: after a reopen has failed for good and Healthy() has become false, a
\* later rotation whose reopen succeeds makes Healthy() true again.
C24_HealthyAfterRecovery == [][IsReopenStep => fi'.healthy]_vars

\* once handleRotation has given up, Healthy() is false from then on
C24_NoRecovery == fi.gaveUp => ~fi.healthy

\* C25: a remove or rename notification makes the ingestor close its handle
\* and reopen the same path; a successful reopen sets the offset to zero; and
\* of a file that was empty when it was reopened and has not been truncated,
\* the lines handed on are, in order and each once, the non-empty complete
\* lines up to the offset, which every read brings to the last newline.
C25_AfterReopen ==
    (FileOpen /\ fi.reopened /\ fi.openSize = 0
        /\ ~disk.files[fi.file].truncated) =>
        LET c == disk.files[fi.file].content
            mine == SelectSeq(offered, LAMBDA e : e.ino = fi.file)
        IN  /\ fi.offset = LastNL(c, fi.offset)
            /\ LinesOf(mine) = NonEmpty(CompleteLines(SubSeq(c, 1, fi.offset)))

C25_RotationStep ==
    /\ (IsReceiveStep /\ Head(events) \in {"remove", "rename"}) =>
           /\ fi'.file \in {NilFile, ClosedFile}
           /\ fi'.pc = "reopen"
    /\ IsReopenStep => (fi'.file = disk.path /\ fi'.offset = 0)
    /\ (IsReadStep /\ fi.reopened /\ ~disk.files[fi.file].truncated) =>
           fi'.offset = LastNL(disk.files[fi.file].content,
                               Len(disk.files[fi.file].content))

C26_NextEventReopens ==
    [][(IsReceiveStep /\ fi.gaveUp /\ fi.file = NilFile) =>
           fi'.pc = "reopen"]_vars

\* handleRotation tries at most ReopenAttempts times, gives up unhealthy with
\* a nil handle, and a write notification then changes nothing
C26_BoundedThenIdle ==
    /\ [](fi.tries <= ReopenAttempts)
    /\ []((fi.pc = "select" /\ fi.file = NilFile) =>
              (~fi.healthy /\ fi.tries = ReopenAttempts))
    /\ [][(IsReceiveStep /\ fi.file = NilFile /\ Head(events) = "write") =>
              UNCHANGED <<fi, offered, disk>>]_vars

\* C27: a readNewLines call that finds the file shorter than the offset
\* reads from byte zero: it hands on every non-empty complete line of the
\* file and leaves the offset after the last newline.
C27_Truncation ==
    [][(IsReadStep /\ Len(disk.files[fi.file].content) < fi.offset) =>
        LET c == disk.files[fi.file].content
        IN  /\ fi'.offset = LastNL(c, Len(c))
            /\ Len(offered') >= Len(offered)
            /\ LinesOf(SubSeq(offered', Len(offered) + 1, Len(offered')))
                   = NonEmpty(CompleteLines(c))]_vars

\* a read has found the file shorter than the offset and a line in it
C27_Witness ==
    /\ reads.ino # NoFile
    /\ Len(reads.content) < reads.offset
    /\ reads.lines # <<>>
    /\ fi.offset > 0
    /\ fi.offset < reads.offset

(***************************************************************************)
(* Properties of GetSources                                                *)
(***************************************************************************)
\* a step in which client t calls GetSources() and it returns
IsGetSources(t) ==
    /\ pc[t] = "idle"
    /\ pc' = pc
    /\ nops' < nops
    /\ ret'.op = "GetSources"

\* C28: GetSources() returns the names that are registered, each once, in
\* ascending order, whatever the order of the AddSource and RemoveSource
\* calls before it.
C28_GetSources ==
    [][\A t \in Clients :
          IsGetSources(t) =>
              LET names == ret'.names
              IN  /\ Range(names) = DOMAIN sources
                  /\ Len(names) = Cardinality(DOMAIN sources)
                  /\ \A i, j \in 1..Len(names) : i < j => names[i] < names[j]]_vars

\* GetSources() has returned two names, the greater of them registered first
C28_Witness ==
    /\ ret.op = "GetSources"
    /\ Len(ret.names) = 2
    /\ Len(ing) = 2
    /\ ing[1].name > ing[2].name

(***************************************************************************)
(* Properties of the parsers                                               *)
(***************************************************************************)
\* the severities from the most to the least severe
Severities == <<"emergency", "alert", "critical", "error", "warning", "notice",
                "info", "debug">>

\* string s is a decimal numeral of n, one of 0..9: a digit after any zeros,
\* with or without a plus sign, and for zero a minus sign
IsNumeral(s, n) ==
    LET signed == s # <<>> /\ (s[1] = "+" \/ (s[1] = "-" /\ n = 0))
        body == IF signed THEN Tail(s) ELSE s
    IN  /\ body # <<>>
        /\ body[Len(body)] = Digits[n + 1]
        /\ \A i \in 1..(Len(body) - 1) : body[i] = "0"

Keywords ==
    <<{<<"e", "m", "e", "r", "g", "e", "n", "c", "y">>, <<"e", "m", "e", "r", "g">>},
      {<<"a", "l", "e", "r", "t">>},
      {<<"c", "r", "i", "t", "i", "c", "a", "l">>, <<"c", "r", "i", "t">>},
      {<<"e", "r", "r", "o", "r">>, <<"e", "r", "r">>},
      {<<"w", "a", "r", "n", "i", "n", "g">>, <<"w", "a", "r", "n">>},
      {<<"n", "o", "t", "i", "c", "e">>},
      {<<"i", "n", "f", "o">>},
      {<<"d", "e", "b", "u", "g">>, <<"t", "r", "a", "c", "e">>}>>

\* ch in lower case
ToLower(ch) ==
    IF \E k \in DOMAIN Upper : Upper[k] = ch
    THEN Lower[CHOOSE k \in DOMAIN Upper : Upper[k] = ch]
    ELSE ch

\* keyword kw occurs in the line, the case of the letters of the line ignored
Occurs(kw, line) ==
    \E i \in 0..(Len(line) - Len(kw)) :
        \A k \in 1..Len(kw) : ToLower(line[i + k]) = kw[k]

\* the severities that have a keyword in the line, as places in Severities
Found(line) == {n \in DOMAIN Keywords : \E kw \in Keywords[n] : Occurs(kw, line)}

\* C30: parseLine gives a line the most severe of the severities that have a
\* keyword in the line, the case of letters ignored, and unknown when none
\* has, whether or not the line has the syslog prefix.
C30_KeywordPrecedence ==
    call.fn = "parseLine" =>
        LET found == Found(call.arg)
        IN  call.out.level =
                IF found = {} THEN "unknown"
                ELSE Severities[CHOOSE n \in found : \A m \in found : n <= m]

\* a line with the syslog prefix and the words debug and error, given error
C30_Witness ==
    /\ call.fn = "parseLine"
    /\ call.out.syslog
    /\ Occurs(<<"d", "e", "b", "u", "g">>, call.arg)
    /\ Occurs(<<"e", "r", "r", "o", "r">>, call.arg)
    /\ call.out.level = "error"

(***************************************************************************)
(* Properties of the registries after Stop, RemoveSource and Unsubscribe   *)
(***************************************************************************)
\* C35: no interleaving of Subscribe, Unsubscribe and Stop closes the queue
\* of a subscriber that is already closed.
C35_ClosedAtMostOnce == panicked # "close of closed channel"

\* C36: once Stop() has returned, a call of AddSource, RemoveSource,
\* GetSources or GetSourceHealth ends in no runtime failure.
C36_RegistryAfterStop ==
    stopped > 0 => panicked # "assignment to entry in nil map"

\* a step in which RemoveSource of a registered name returns
IsRemoveReturn(t) == pc[t] = "rm_stop" /\ pc'[t] = "idle"

\* C37: when RemoveSource(name) returns, the name is not registered and every
\* ingestor that AddSource started under that name has had Stop called.
C37_RemovedAreStopped ==
    [][\A t \in Clients :
          IsRemoveReturn(t) =>
              /\ ret'.arg \notin DOMAIN sources'
              /\ \A i \in DOMAIN ing :
                     (ing'[i].name = ret'.arg /\ ing'[i].st = "running") =>
                         ing'[i].stops > 0]_vars

\* C38: after Unsubscribe(id) has returned, the registry holds no open
\* subscriber with that id.
C38_NoneLeftWithId ==
    ret.op = "Unsubscribe" =>
        \A k \in 1..subHdr.len :
            LET o == Subscribers[k]
            IN  o # 0 => ~(sub[o].ID = ret.arg /\ ~sub[o].closed)

\* C40: once Stop() has returned, the aggregation loop pushes nothing into the
\* history and delivers nothing to a subscriber, whatever waits in the intake
\* queue.
C40_FrozenAfterStop ==
    [][stopped > 0 =>
          /\ histLog' = histLog
          /\ History' = History
          /\ \A o \in DOMAIN delivered : delivered'[o] = delivered[o]]_vars

\* the steps of a call that has already begun, whichever call it is
AggClientContinue ==
    \E t \in Clients :
        \/ UnsubscribeClose(t)
        \/ AddSourceStart(t)
        \/ RemoveSourceStop(t)
        \/ StopLock(t)
        \/ StopSources(t)
        \/ StopRange(t)
        \/ StopIter(t)
        \/ StopReturn(t)

\* the events the sources of SpecLock produce
MaxLockEvents == 1

\* every call the clients of a running aggregator make
LockClientStep ==
    \E t \in Clients :
        \/ \E id \in SubIDs : Subscribe(t, id)
        \/ \E id \in SubIDs : UnsubscribeFind(t, id)
        \/ UnsubscribeClose(t)
        \/ \E name \in Names : AddSourceRegister(t, name)
        \/ AddSourceStart(t)
        \/ \E name \in Names : RemoveSourceFind(t, name)
        \/ RemoveSourceStop(t)
        \/ GetSources(t)
        \/ GetSourceHealth(t)
        \/ StopCancel(t)
        \/ StopLock(t)
        \/ StopSources(t)
        \/ StopRange(t)
        \/ StopIter(t)
        \/ StopReturn(t)

NextLock ==
    \/ LockClientStep
    \/ LoopStep
    \/ \E i \in IngIDs : IngestorStep(i) /\ Len(sent') <= MaxLockEvents
    \/ \E o \in SubObjs : Consume(o)

\* SpecLock: the calls and the broadcast of a running aggregator, interleaved
SpecLock == InitFan /\ [][NextLock]_vars

\* FairLock: SpecLock where the aggregation loop and the calls in progress
\* run whenever they can.  Nothing obliges a client to call.
FairLock ==
    /\ SpecLock
    /\ WF_vars(LoopStep)
    /\ WF_vars(AggClientContinue)

\* thread t holds the lock of some subscriber
HoldsSubLock(t) == \E o \in DOMAIN sub : sub[o].mu = t

\* thread t acquires a.mu, for writing or for reading, in this step
AcquiresMu(t) ==
    \/ mu'.w = t /\ mu.w # t
    \/ t \in mu'.r /\ t \notin mu.r

\* a.mu is taken before a subscriber's lock, never after it
LockOrder == \A t \in Threads : HoldsSubLock(t) => ~AcquiresMu(t)

\* the lock of subscriber o is held
SubLocked(o) == IF o \in DOMAIN sub THEN sub[o].mu # NoThread ELSE FALSE

\* no lock is held
LocksFree == MuFree /\ \A o \in SubObjs : ~SubLocked(o)

\* no call is in progress
Returned == \A t \in Clients : pc[t] = "idle"

From(c, n) == SubSeq(c, n + 1, Len(c))

\* the lines that have at least one byte, in order
WithBytes(lines) == SelectSeq(lines, LAMBDA l : Len(l) > 0)

\* one call of readNewLines: of the bytes from the offset to the end it
\* hands on the non-empty complete lines, in order, and moves the offset past
\* the last newline
C34_ReadStep ==
    IsReadStep =>
        LET c == disk.files[fi.file].content
            from == StartOffset(Len(c), fi.offset)
            part == From(c, from)
        IN  /\ fi'.offset = from + LastNL(part, Len(part))
            /\ Len(offered') >= Len(offered)
            /\ SubSeq(offered', 1, Len(offered)) = offered
            /\ LinesOf(SubSeq(offered', Len(offered) + 1, Len(offered')))
                   = WithBytes(CompleteLines(part))
            /\ \A e \in Range(From(offered', Len(offered))) : e.ino = fi.file

\* of the file the ingestor was started on, as long as it has not been
\* truncated: the offset is where it was at Start or just after a newline,
\* and the lines handed on are, each once and in order, the non-empty
\* complete lines between the two; what follows the offset is not handed on
C34_EachOnce ==
    (FileOpen /\ ~fi.reopened /\ ~disk.files[fi.file].truncated) =>
        LET c == disk.files[fi.file].content
            mine == SelectSeq(offered, LAMBDA e : e.ino = fi.file)
        IN  /\ fi.openSize <= fi.offset
            /\ fi.offset <= Len(c)
            /\ fi.offset = fi.openSize \/ c[fi.offset] = NL
            /\ LinesOf(mine)
                   = WithBytes(CompleteLines(SubSeq(c, fi.openSize + 1, fi.offset)))

\* C34: on each write notification readNewLines consumes only the complete
\* lines after the recorded offset: the offset advances by exactly their
\* bytes, empty lines produce no event, and an incomplete last line is
\* neither handed on nor counted, so that it is handed on once, whole, by the
\* read that finds its newline.
C34_CompleteLinesOnly == [](C34_EachOnce) /\ [][C34_ReadStep]_vars

\* the last read handed on a line, skipped an empty line and left an
\* incomplete line behind the offset
C34_Witness ==
    /\ FileOpen
    /\ reads.ino = fi.file
    /\ reads.content = disk.files[fi.file].content
    /\ reads.lines # <<>>
    /\ fi.offset > reads.offset + Len(reads.lines[1]) + 1
    /\ fi.offset < Len(reads.content)
    /\ reads.content[Len(reads.content)] # NL

(***************************************************************************)
(* Properties of the journal ingestor's read loop                          *)
(***************************************************************************)
\* in this step the read goroutine of i takes a line that is not JSON from
\* the scanner
IsBadScan(i) == ing[i].entry # MalformedLine /\ ing'[i].entry = MalformedLine

\* in this step the read goroutine of i, not cancelled, leaves the check of a
\* line that is not JSON
IsSkip(i) ==
    /\ ing[i].ipc = "check"
    /\ ing[i].entry = MalformedLine
    /\ ~Cancelled(ing[i])
    /\ ing'[i].ipc # "check"

\* taking a malformed line and skipping it produces no event and leaves the
\* health flag and the stream as they are; after the skip the goroutine is
\* back at scanner.Scan()
C31_SkipStep ==
    \A i \in Journals :
        /\ (IsBadScan(i) \/ IsSkip(i)) =>
               /\ entryChan' = entryChan
               /\ histLog' = histLog
               /\ sent' = sent
               /\ ing'[i].healthy = ing[i].healthy
               /\ ing'[i].st = ing[i].st
        /\ IsSkip(i) => (ing'[i].ipc = "wait" /\ ing'[i].entry = 0)

\* the events a journal ingestor has read, whatever malformed lines stood
\* between them, are received or on their way, each once and in the order
\* they were read, as long as its read goroutine runs
C31_InOrder ==
    \A i \in Journals :
        ing[i].st = "running" =>
            LET way == histLog \o entryChan
                       \o (IF ing[i].entry > 0 THEN <<ing[i].entry>> ELSE <<>>)
            IN  SelectSeq(way, LAMBDA e : sent[e] = i)
                    = SelectSeq([e \in 1..Len(sent) |-> e], LAMBDA e : sent[e] = i)

C32_FailedIsInert ==
    \A i \in DOMAIN ing :
        ing[i].st = "failed" =>
            /\ ~ing[i].healthy
            /\ ing[i].ipc = "none"
            /\ ing[i].proc = "none"
            /\ ing[i].entry = 0
            /\ \A e \in DOMAIN sent : sent[e] # i

\* Start is one step of its caller: it returns an error and leaves the
\* ingestor failed, or returns nil with the ingestor healthy and running;
\* whatever happens to the ingestor later changes the flag, not what a call
\* returned
C32_StartStep ==
    \A i \in DOMAIN ing :
        /\ (ing[i].st = "new" /\ ing'[i].st # "new") =>
               /\ ret'.op = "Start"
               /\ ret'.arg = i
               /\ ret'.err = (ing'[i].st = "failed")
               /\ ~ret'.err => (ing'[i].st = "running" /\ ing'[i].healthy)
               /\ pc' = pc
               /\ panicked' = panicked
        /\ ing[i].st = "failed" => ing'[i].st = "failed"
        /\ (ing[i].st # "new" /\ ing[i].healthy /\ ~ing'[i].healthy) =>
               (ret' = ret /\ panicked' = panicked)

Named(srcs, name) == {i \in DOMAIN srcs : srcs[i].Name = name}

\* srcs is `before` with the source at index i taken out
Without(srcs, before, i) ==
    /\ Len(srcs) = Len(before) - 1
    /\ \A k \in DOMAIN srcs : srcs[k] = IF k < i THEN before[k] ELSE before[k + 1]

\* what the last call on the Config did to the list it found
C33_LastCall ==
    /\ cfg.op = "RemoveSource" =>
           LET at == Named(cfg.prev, cfg.arg)
           IN  IF at = {}
               THEN ~cfg.removed /\ cfg.Sources = cfg.prev
               ELSE /\ cfg.removed
                    /\ \E i \in at :
                           /\ \A k \in at : i <= k
                           /\ Without(cfg.Sources, cfg.prev, i)
    /\ cfg.op = "AddSource" =>
           /\ Len(cfg.Sources) = Len(cfg.prev) + 1
           /\ SubSeq(cfg.Sources, 1, Len(cfg.prev)) = cfg.prev
           /\ cfg.Sources[Len(cfg.Sources)].Name = cfg.arg

\* RemoveSource of the name that the call before it added, a name no source
\* had, gives back the list as it was before the two calls
C33_AddThenRemove ==
    (/\ cfg.op = "AddSource"
     /\ Named(cfg.prev, cfg.arg) = {}
     /\ cfg'.op = "RemoveSource"
     /\ cfg'.arg = cfg.arg) =>
        (cfg'.removed /\ cfg'.Sources = cfg.prev)

\* C33: RemoveSource(name) takes out the first source with the name, keeps
\* the others in their order and returns true, or returns false and leaves
\* the list alone when no source has the name; AddSource appends one source,
\* so adding a source with a new name and removing it restores the list.
C33_AddRemoveSource == [](C33_LastCall) /\ [][C33_AddThenRemove]_vars

\* of two sources with one name and another source after them, RemoveSource
\* has taken out the first
C33_Witness ==
    /\ cfg.op = "RemoveSource"
    /\ cfg.removed
    /\ Cardinality(Named(cfg.prev, cfg.arg)) = 2
    /\ Len(cfg.prev) = 3
    /\ cfg.prev[3].Name # cfg.arg
    /\ cfg.prev[1].Path # cfg.prev[2].Path

=============================================================================
